---- MODULE Spec2Model ----
(***************************************************************************)
(* Axiom Core (engine/src/ax_core.cpp): the lifecycle state machine, the   *)
(* action intake, the per-tick rule engine, the snapshot encoder and the   *)
(* save/load codec, as a state machine over the ABI calls of ax_abi.h.     *)
(*                                                                         *)
(* Floats are carried as fixed-point integers with denominator FX          *)
(* (1.0 = FX); NaN and Infinity are the two sentinels F_NAN and F_INF.     *)
(* Blobs are byte sequences (1-based in TLA+, offsets are 0-based as in    *)
(* the source), little-endian, with the packed layouts of the source.      *)
(***************************************************************************)
EXTENDS Integers, Sequences, FiniteSets, TLC

(* ------------------------------------------------------------------ *)
(* Bounds of the model                                                  *)
(* ------------------------------------------------------------------ *)
MaxTick == 2
MaxQueue == 1
MaxStep == 2
MaxAhead == 1
MaxScript == 4
MaxLag == 2
MaxPlay == 6
MaxPlayTick == 32
MaxWorldTick == 3
MaxHeld == 2

(* ------------------------------------------------------------------ *)
(* ax_abi.h: result codes, action and event types, flags                *)
(* ------------------------------------------------------------------ *)
AX_OK == 0
AX_ERR_INVALID_ARG == 1
AX_ERR_BAD_STATE == 2
AX_ERR_UNSUPPORTED == 3
AX_ERR_BUFFER_TOO_SMALL == 4

AX_ACT_MOVE_INTENT == 1
AX_ACT_LOOK_INTENT == 2
AX_ACT_FIRE_ONCE == 3
AX_ACT_RELOAD == 4
AX_ACT_SPRINT_HELD == 5
AX_ACT_CROUCH_TOGGLE == 6

AX_EVT_DAMAGE_DEALT == 1
AX_EVT_RELOAD_STARTED == 2
AX_EVT_RELOAD_DONE == 3
AX_EVT_TARGET_DESTROY == 4
AX_EVT_FIRE_BLOCKED == 5

AX_FIRE_BLOCKED_RELOADING == 1
AX_FIRE_BLOCKED_EMPTY_MAG == 2

AX_ENT_FLAG_PLAYER == 1
AX_ENT_FLAG_TARGET == 2
AX_ENT_FLAG_DEAD == 4

AX_WPN_FLAG_RELOADING == 1

(* ax_core.cpp: enum ax_lifecycle *)
AX_LIFECYCLE_CREATED == 0
AX_LIFECYCLE_CONTENT_LOADED == 1
AX_LIFECYCLE_RUNNING == 2

(* ax_core.cpp: the hardcoded content and rule constants *)
PLAYER_ID == 1
FIRST_TARGET_ID == 100
TARGET_COUNT == 3
TARGET_ARCHETYPE == 2000
TARGET_HP == 50
START_AMMO_IN_MAG == 12
START_AMMO_RESERVE == 48
MAGAZINE_SIZE == 12
RELOAD_TICKS == 30
DAMAGE == 10

(* Fixed-point floats: 1.0 = FX; WALK_SPEED is 0.1f *)
FX == 100
WALK_SPEED == 10
F_NAN == 2000000001
F_INF == 2000000002

(* ------------------------------------------------------------------ *)
(* Bit tests on flag words                                              *)
(* ------------------------------------------------------------------ *)
HasFlag(word, bit) == (word \div bit) % 2 = 1
SetFlag(word, bit) == IF HasFlag(word, bit) THEN word ELSE word + bit
ClearFlag(word, bit) == IF HasFlag(word, bit) THEN word - bit ELSE word

(* ------------------------------------------------------------------ *)
(* The instance: struct ax_core, as ax_create leaves it                 *)
(* ------------------------------------------------------------------ *)
ZeroWeapon ==
    [player_id |-> 0, weapon_slot |-> 0, ammo_in_mag |-> 0, ammo_reserve |-> 0,
     reloading |-> FALSE, reload_ticks_remaining |-> 0]

NewCore ==
    [lifecycle |-> AX_LIFECYCLE_CREATED, tick |-> 0, entities |-> <<>>,
     weapon |-> ZeroWeapon, action_queue |-> <<>>, events |-> <<>>]

(* What a call hands back: the instance, the last-error text, the code *)
Ret(c, e, r) == [core |-> c, err |-> e, res |-> r]

(* ------------------------------------------------------------------ *)
(* ax_load_content                                                      *)
(* ------------------------------------------------------------------ *)
PlayerEntity ==
    [id |-> PLAYER_ID, archetype_id |-> 0,
     px |-> 0, py |-> 0, pz |-> 0,
     rx |-> 0, ry |-> 0, rz |-> 0, rw |-> FX,
     hp |-> -1, state_flags |-> AX_ENT_FLAG_PLAYER]

target_positions == << <<0, 0, -10 * FX>>, <<5 * FX, 0, -15 * FX>>, <<-5 * FX, 0, -20 * FX>> >>

TargetEntity(i) ==
    [id |-> FIRST_TARGET_ID + i, archetype_id |-> TARGET_ARCHETYPE,
     px |-> target_positions[i + 1][1], py |-> target_positions[i + 1][2],
     pz |-> target_positions[i + 1][3],
     rx |-> 0, ry |-> 0, rz |-> 0, rw |-> FX,
     hp |-> TARGET_HP, state_flags |-> AX_ENT_FLAG_TARGET]

ContentWeapon ==
    [player_id |-> PLAYER_ID, weapon_slot |-> 0,
     ammo_in_mag |-> START_AMMO_IN_MAG, ammo_reserve |-> START_AMMO_RESERVE,
     reloading |-> FALSE, reload_ticks_remaining |-> 0]

LoadedCore ==
    [lifecycle |-> AX_LIFECYCLE_CONTENT_LOADED, tick |-> 0,
     entities |-> <<PlayerEntity>> \o [i \in 1..TARGET_COUNT |-> TargetEntity(i - 1)],
     weapon |-> ContentWeapon, action_queue |-> <<>>, events |-> <<>>]

(* ax_load_content without the test of lines 172-176: a second load
   builds the world again *)
ax_load_content_Again(c, err, params) ==
    IF params.null
    THEN Ret(c, "ax_load_content: core and params must not be NULL", AX_ERR_INVALID_ARG)
    ELSE IF params.version # 1
    THEN Ret(c, "ax_load_content: unknown params version", AX_ERR_UNSUPPORTED)
    ELSE IF ~params.size_ok
    THEN Ret(c, "ax_load_content: size_bytes < expected", AX_ERR_INVALID_ARG)
    ELSE IF params.root_path = ""
    THEN Ret(c, "ax_load_content: root_path must not be NULL or empty", AX_ERR_INVALID_ARG)
    ELSE Ret(LoadedCore, "", AX_OK)

(* params: [null, version, size_ok, root_path] with root_path "" for NULL or empty *)
ax_load_content(c, err, params) ==
    IF params.null
    THEN Ret(c, "ax_load_content: core and params must not be NULL", AX_ERR_INVALID_ARG)
    ELSE IF c.lifecycle # AX_LIFECYCLE_CREATED
    THEN Ret(c, "ax_load_content: content already loaded (unload first)", AX_ERR_BAD_STATE)
    ELSE IF params.version # 1
    THEN Ret(c, "ax_load_content: unknown params version", AX_ERR_UNSUPPORTED)
    ELSE IF ~params.size_ok
    THEN Ret(c, "ax_load_content: size_bytes < expected", AX_ERR_INVALID_ARG)
    ELSE IF params.root_path = ""
    THEN Ret(c, "ax_load_content: root_path must not be NULL or empty", AX_ERR_INVALID_ARG)
    ELSE Ret(LoadedCore, "", AX_OK)

(* ------------------------------------------------------------------ *)
(* ax_unload_content                                                    *)
(* ------------------------------------------------------------------ *)
(* ax_unload_content that forgets action_queue.clear() *)
ax_unload_content_KeepsQueue(c, err) ==
    Ret([c EXCEPT !.entities = <<>>, !.events = <<>>,
                  !.tick = 0, !.weapon = ZeroWeapon,
                  !.lifecycle = AX_LIFECYCLE_CREATED],
        "", AX_OK)

ax_unload_content(c, err) ==
    Ret([c EXCEPT !.entities = <<>>, !.action_queue = <<>>, !.events = <<>>,
                  !.tick = 0, !.weapon = ZeroWeapon,
                  !.lifecycle = AX_LIFECYCLE_CREATED],
        "", AX_OK)

(* ------------------------------------------------------------------ *)
(* ax_submit_actions                                                    *)
(* ------------------------------------------------------------------ *)
is_finite(f) == f \notin {F_NAN, F_INF}

(* an action: [tick, actor_id, type, u0, u1]; u0, u1 are the two words of the
   payload union: move.x/move.y, look.yaw/look.pitch, weapon_slot in u0 *)
ActionValid(a) ==
    /\ ~(a.type < AX_ACT_MOVE_INTENT \/ a.type > AX_ACT_CROUCH_TOGGLE)
    /\ (a.type = AX_ACT_MOVE_INTENT => is_finite(a.u0) /\ is_finite(a.u1))
    /\ (a.type = AX_ACT_LOOK_INTENT => is_finite(a.u0) /\ is_finite(a.u1))

ActionError(a) ==
    IF a.type < AX_ACT_MOVE_INTENT \/ a.type > AX_ACT_CROUCH_TOGGLE
    THEN "ax_submit_actions: action unknown type"
    ELSE IF a.type = AX_ACT_MOVE_INTENT
    THEN "ax_submit_actions: action MOVE has non-finite values"
    ELSE "ax_submit_actions: action LOOK has non-finite values"

(* a loop that validates the whole batch before it pushes anything *)
SubmitLoop_AllOrNothing(c, err, actions, i) ==
    LET bad == {j \in i..Len(actions) : ~ActionValid(actions[j])}
    IN IF bad # {}
       THEN Ret(c, ActionError(actions[CHOOSE j \in bad : \A k \in bad : j <= k]),
                AX_ERR_INVALID_ARG)
       ELSE Ret([c EXCEPT !.action_queue = @ \o SubSeq(actions, i, Len(actions))],
                err, AX_OK)

(* the per-action loop: validate action i, push it, go on; stop at the first
   invalid action with what was pushed so far *)
RECURSIVE SubmitLoop(_, _, _, _)
SubmitLoop(c, err, actions, i) ==
    IF i > Len(actions)
    THEN Ret(c, err, AX_OK)
    ELSE IF ~ActionValid(actions[i])
    THEN Ret(c, ActionError(actions[i]), AX_ERR_INVALID_ARG)
    ELSE SubmitLoop([c EXCEPT !.action_queue = Append(@, actions[i])], err, actions, i + 1)

(* batch: [null, version, size_ok, count, actions_null, actions] *)
ax_submit_actions(c, err, batch) ==
    IF batch.null
    THEN Ret(c, "ax_submit_actions: core and batch must not be NULL", AX_ERR_INVALID_ARG)
    ELSE IF c.lifecycle < AX_LIFECYCLE_CONTENT_LOADED
    THEN Ret(c, "ax_submit_actions: content not loaded", AX_ERR_BAD_STATE)
    ELSE IF batch.version # 1
    THEN Ret(c, "ax_submit_actions: unknown batch version", AX_ERR_UNSUPPORTED)
    ELSE IF ~batch.size_ok
    THEN Ret(c, "ax_submit_actions: size_bytes < expected", AX_ERR_INVALID_ARG)
    ELSE IF batch.count = 0
    THEN Ret(c, err, AX_OK)
    ELSE IF batch.actions_null
    THEN Ret(c, "ax_submit_actions: count but actions is NULL", AX_ERR_INVALID_ARG)
    ELSE SubmitLoop(c, err, batch.actions, 1)

(* ------------------------------------------------------------------ *)
(* ax_step_ticks                                                        *)
(* ------------------------------------------------------------------ *)
Event(type, a, b, value) == [type |-> type, a |-> a, b |-> b, value |-> value]

SetMin(S) == CHOOSE x \in S : \A y \in S : x <= y

(* the first index of es satisfying the loop's test, 0 when the loop ends
   without a break *)
FirstActorPlayer(es, actor_id) ==
    LET S == {i \in 1..Len(es) :
                es[i].id = actor_id /\ HasFlag(es[i].state_flags, AX_ENT_FLAG_PLAYER)}
    IN IF S = {} THEN 0 ELSE SetMin(S)

(* the first TARGET in storage order, destroyed or not *)
FirstLivingTarget_AnyTarget(es) ==
    LET S == {i \in 1..Len(es) : HasFlag(es[i].state_flags, AX_ENT_FLAG_TARGET)}
    IN IF S = {} THEN 0 ELSE SetMin(S)

(* the last living TARGET in storage order *)
FirstLivingTarget_LastLiving(es) ==
    LET S == {i \in 1..Len(es) :
                /\ HasFlag(es[i].state_flags, AX_ENT_FLAG_TARGET)
                /\ ~HasFlag(es[i].state_flags, AX_ENT_FLAG_DEAD)}
    IN IF S = {} THEN 0 ELSE CHOOSE x \in S : \A y \in S : x >= y

FirstLivingTarget(es) ==
    LET S == {i \in 1..Len(es) :
                /\ HasFlag(es[i].state_flags, AX_ENT_FLAG_TARGET)
                /\ ~HasFlag(es[i].state_flags, AX_ENT_FLAG_DEAD)}
    IN IF S = {} THEN 0 ELSE SetMin(S)

Abs(x) == IF x < 0 THEN -x ELSE x
FMul(a, b) == (a * b) \div FX
FQuot(a, b) == (a * FX) \div b
(* std::sqrt(mx*mx + my*my) on fixed-point operands *)
Magnitude(mx, my) ==
    LET m == Abs(mx) + Abs(my)
    IN CHOOSE r \in 0..m : r * r <= mx * mx + my * my /\ (r + 1) * (r + 1) > mx * mx + my * my

ApplyMove(c, a) ==
    LET i == FirstActorPlayer(c.entities, a.actor_id)
        mag == Magnitude(a.u0, a.u1)
        mx == IF mag > FX THEN FQuot(a.u0, mag) ELSE a.u0
        my == IF mag > FX THEN FQuot(a.u1, mag) ELSE a.u1
    IN IF i = 0 THEN c
       ELSE [c EXCEPT !.entities[i].px = @ + FMul(mx, WALK_SPEED),
                      !.entities[i].pz = @ + FMul(my, WALK_SPEED),
                      !.entities[i].py = 0]

(* a look that turns the first PLAYER entity, whoever the actor is *)
ApplyLook_AnyActor(c, a) ==
    LET S == {j \in 1..Len(c.entities) : HasFlag(c.entities[j].state_flags, AX_ENT_FLAG_PLAYER)}
        i == IF S = {} THEN 0 ELSE SetMin(S)
    IN IF i = 0 THEN c
       ELSE [c EXCEPT !.entities[i].ry = @ + a.u0]

ApplyLook(c, a) ==
    LET i == FirstActorPlayer(c.entities, a.actor_id)
    IN IF i = 0 THEN c
       ELSE [c EXCEPT !.entities[i].ry = @ + a.u0]

(* a shot that finds no living target gives the round back *)
ApplyHit_RefundsMiss(c, a) ==
    LET i == FirstLivingTarget(c.entities)
        hp == c.entities[i].hp - DAMAGE
        dmg == Event(AX_EVT_DAMAGE_DEALT, a.actor_id, c.entities[i].id, DAMAGE)
        dest == Event(AX_EVT_TARGET_DESTROY, a.actor_id, c.entities[i].id, 0)
    IN IF i = 0 THEN [c EXCEPT !.weapon.ammo_in_mag = @ + 1]
       ELSE IF hp <= 0
       THEN [c EXCEPT !.entities[i].hp = hp,
                      !.entities[i].state_flags = SetFlag(@, AX_ENT_FLAG_DEAD),
                      !.events = @ \o <<dmg, dest>>]
       ELSE [c EXCEPT !.entities[i].hp = hp, !.events = Append(@, dmg)]

(* a hit that announces the destruction before the damage *)
ApplyHit_DestroyFirst(c, a) ==
    LET i == FirstLivingTarget(c.entities)
        hp == c.entities[i].hp - DAMAGE
        dmg == Event(AX_EVT_DAMAGE_DEALT, a.actor_id, c.entities[i].id, DAMAGE)
        dest == Event(AX_EVT_TARGET_DESTROY, a.actor_id, c.entities[i].id, 0)
    IN IF i = 0 THEN c
       ELSE IF hp <= 0
       THEN [c EXCEPT !.entities[i].hp = hp,
                      !.entities[i].state_flags = SetFlag(@, AX_ENT_FLAG_DEAD),
                      !.events = @ \o <<dest, dmg>>]
       ELSE [c EXCEPT !.entities[i].hp = hp, !.events = Append(@, dmg)]

ApplyHit(c, a) ==
    LET i == FirstLivingTarget(c.entities)
        hp == c.entities[i].hp - DAMAGE
        dmg == Event(AX_EVT_DAMAGE_DEALT, a.actor_id, c.entities[i].id, DAMAGE)
        dest == Event(AX_EVT_TARGET_DESTROY, a.actor_id, c.entities[i].id, 0)
    IN IF i = 0 THEN c
       ELSE IF hp <= 0
       THEN [c EXCEPT !.entities[i].hp = hp,
                      !.entities[i].state_flags = SetFlag(@, AX_ENT_FLAG_DEAD),
                      !.events = @ \o <<dmg, dest>>]
       ELSE [c EXCEPT !.entities[i].hp = hp, !.events = Append(@, dmg)]

(* the empty magazine tested before the reload *)
ApplyFire_EmptyFirst(c, a) ==
    IF c.weapon.ammo_in_mag <= 0
    THEN [c EXCEPT !.events = Append(@,
            Event(AX_EVT_FIRE_BLOCKED, a.actor_id, a.u0, AX_FIRE_BLOCKED_EMPTY_MAG))]
    ELSE IF c.weapon.reloading
    THEN [c EXCEPT !.events = Append(@,
            Event(AX_EVT_FIRE_BLOCKED, a.actor_id, a.u0, AX_FIRE_BLOCKED_RELOADING))]
    ELSE ApplyHit([c EXCEPT !.weapon.ammo_in_mag = @ - 1], a)

ApplyFire(c, a) ==
    IF c.weapon.reloading
    THEN [c EXCEPT !.events = Append(@,
            Event(AX_EVT_FIRE_BLOCKED, a.actor_id, a.u0, AX_FIRE_BLOCKED_RELOADING))]
    ELSE IF c.weapon.ammo_in_mag <= 0
    THEN [c EXCEPT !.events = Append(@,
            Event(AX_EVT_FIRE_BLOCKED, a.actor_id, a.u0, AX_FIRE_BLOCKED_EMPTY_MAG))]
    ELSE ApplyHit([c EXCEPT !.weapon.ammo_in_mag = @ - 1], a)

(* a RELOAD that does not look at the reloading flag *)
ApplyReload_Restarts(c, a) ==
    IF /\ c.weapon.ammo_in_mag < MAGAZINE_SIZE
       /\ c.weapon.ammo_reserve > 0
    THEN [c EXCEPT !.weapon.reloading = TRUE,
                   !.weapon.reload_ticks_remaining = RELOAD_TICKS,
                   !.events = Append(@, Event(AX_EVT_RELOAD_STARTED, a.actor_id, a.u0, 0))]
    ELSE c

(* a RELOAD that starts the countdown and leaves the flag to the timers *)
ApplyReload_FlagLater(c, a) ==
    IF /\ ~c.weapon.reloading
       /\ c.weapon.ammo_in_mag < MAGAZINE_SIZE
       /\ c.weapon.ammo_reserve > 0
    THEN [c EXCEPT !.weapon.reload_ticks_remaining = RELOAD_TICKS,
                   !.events = Append(@, Event(AX_EVT_RELOAD_STARTED, a.actor_id, a.u0, 0))]
    ELSE c

ApplyReload(c, a) ==
    IF /\ ~c.weapon.reloading
       /\ c.weapon.ammo_in_mag < MAGAZINE_SIZE
       /\ c.weapon.ammo_reserve > 0
    THEN [c EXCEPT !.weapon.reloading = TRUE,
                   !.weapon.reload_ticks_remaining = RELOAD_TICKS,
                   !.events = Append(@, Event(AX_EVT_RELOAD_STARTED, a.actor_id, a.u0, 0))]
    ELSE c

ApplyAction(c, a) ==
    IF a.type = AX_ACT_MOVE_INTENT THEN ApplyMove(c, a)
    ELSE IF a.type = AX_ACT_LOOK_INTENT THEN ApplyLook(c, a)
    ELSE IF a.type = AX_ACT_FIRE_ONCE THEN ApplyFire(c, a)
    ELSE IF a.type = AX_ACT_RELOAD THEN ApplyReload(c, a)
    ELSE c

RemoveAt(s, i) == [j \in 1..(Len(s) - 1) |-> IF j < i THEN s[j] ELSE s[j + 1]]

(* a scan that advances i after the erase as well *)
RECURSIVE ScanQueue_SkipsNext(_, _)
ScanQueue_SkipsNext(c, i) ==
    IF i > Len(c.action_queue) THEN c
    ELSE IF c.action_queue[i].tick # c.tick THEN ScanQueue_SkipsNext(c, i + 1)
    ELSE ScanQueue_SkipsNext([ApplyAction(c, c.action_queue[i])
                                  EXCEPT !.action_queue = RemoveAt(@, i)], i + 1)

(* a scan that also takes the actions whose tick is already over *)
RECURSIVE ScanQueue_Overdue(_, _)
ScanQueue_Overdue(c, i) ==
    IF i > Len(c.action_queue) THEN c
    ELSE IF c.action_queue[i].tick > c.tick THEN ScanQueue_Overdue(c, i + 1)
    ELSE ScanQueue_Overdue([ApplyAction(c, c.action_queue[i])
                                EXCEPT !.action_queue = RemoveAt(@, i)], i)

(* for (i = 0; i < action_queue.size(); ): skip an action of another tick,
   apply and erase a due one without advancing i *)
RECURSIVE ScanQueue(_, _)
ScanQueue(c, i) ==
    IF i > Len(c.action_queue) THEN c
    ELSE IF c.action_queue[i].tick # c.tick THEN ScanQueue(c, i + 1)
    ELSE ScanQueue([ApplyAction(c, c.action_queue[i])
                        EXCEPT !.action_queue = RemoveAt(@, i)], i)

(* a completion that fills the magazine whatever the reserve holds *)
AdvanceTimers_FullMagazine(c) ==
    IF ~c.weapon.reloading THEN c
    ELSE LET rem == IF c.weapon.reload_ticks_remaining > 0
                    THEN c.weapon.reload_ticks_remaining - 1
                    ELSE c.weapon.reload_ticks_remaining
             to_load == MAGAZINE_SIZE - c.weapon.ammo_in_mag
         IN IF rem = 0
            THEN [c EXCEPT !.weapon.reload_ticks_remaining = rem,
                           !.weapon.ammo_in_mag = @ + to_load,
                           !.weapon.ammo_reserve = @ - to_load,
                           !.weapon.reloading = FALSE,
                           !.events = Append(@, Event(AX_EVT_RELOAD_DONE,
                                c.weapon.player_id, c.weapon.weapon_slot, to_load))]
            ELSE [c EXCEPT !.weapon.reload_ticks_remaining = rem]

(* a completion that fills the magazine and leaves the reserve as it is *)
AdvanceTimers_KeepsReserve(c) ==
    IF ~c.weapon.reloading THEN c
    ELSE LET rem == IF c.weapon.reload_ticks_remaining > 0
                    THEN c.weapon.reload_ticks_remaining - 1
                    ELSE c.weapon.reload_ticks_remaining
             needed == MAGAZINE_SIZE - c.weapon.ammo_in_mag
             to_load == IF needed < c.weapon.ammo_reserve THEN needed
                        ELSE c.weapon.ammo_reserve
         IN IF rem = 0
            THEN [c EXCEPT !.weapon.reload_ticks_remaining = rem,
                           !.weapon.ammo_in_mag = @ + to_load,
                           !.weapon.reloading = FALSE,
                           !.events = Append(@, Event(AX_EVT_RELOAD_DONE,
                                c.weapon.player_id, c.weapon.weapon_slot, to_load))]
            ELSE [c EXCEPT !.weapon.reload_ticks_remaining = rem]

AdvanceTimers(c) ==
    IF ~c.weapon.reloading THEN c
    ELSE LET rem == IF c.weapon.reload_ticks_remaining > 0
                    THEN c.weapon.reload_ticks_remaining - 1
                    ELSE c.weapon.reload_ticks_remaining
             needed == MAGAZINE_SIZE - c.weapon.ammo_in_mag
             to_load == IF needed < c.weapon.ammo_reserve THEN needed
                        ELSE c.weapon.ammo_reserve
         IN IF rem = 0
            THEN [c EXCEPT !.weapon.reload_ticks_remaining = rem,
                           !.weapon.ammo_in_mag = @ + to_load,
                           !.weapon.ammo_reserve = @ - to_load,
                           !.weapon.reloading = FALSE,
                           !.events = Append(@, Event(AX_EVT_RELOAD_DONE,
                                c.weapon.player_id, c.weapon.weapon_slot, to_load))]
            ELSE [c EXCEPT !.weapon.reload_ticks_remaining = rem]

(* one pass of the loop body with the timers before the actions *)
StepOne_TimersFirst(c) ==
    ScanQueue(AdvanceTimers([c EXCEPT !.tick = @ + 1, !.events = <<>>]), 1)

(* one pass of the loop body without events.clear() *)
StepOne_KeepsEvents(c) ==
    AdvanceTimers(ScanQueue([c EXCEPT !.tick = @ + 1], 1))

(* one pass of the for (step ...) loop body *)
StepOne(c) ==
    AdvanceTimers(ScanQueue([c EXCEPT !.tick = @ + 1, !.events = <<>>], 1))

(* the loop with the bound step <= n_ticks *)
RECURSIVE StepLoop_Inclusive(_, _)
StepLoop_Inclusive(c, n) ==
    IF n = 0 THEN StepOne(c)
    ELSE CHOOSE r \in {StepLoop_Inclusive(d, n - 1) : d \in {StepOne(c)}} : TRUE

(* the for (step ...) loop; d is the instance after one pass, computed
   before the next pass begins *)
RECURSIVE StepLoop(_, _)
StepLoop(c, n) ==
    IF n = 0 THEN c
    ELSE CHOOSE r \in {StepLoop(d, n - 1) : d \in {StepOne(c)}} : TRUE

(* no transition to RUNNING after the loop *)
EnterRunning_Never(c) == c

EnterRunning(c) ==
    IF c.lifecycle = AX_LIFECYCLE_CONTENT_LOADED
    THEN [c EXCEPT !.lifecycle = AX_LIFECYCLE_RUNNING]
    ELSE c

(* ax_step_ticks without the lifecycle check of lines 364-368 *)
ax_step_ticks_Ungated(c, err, n_ticks) ==
    IF n_ticks = 0
    THEN Ret(c, err, AX_OK)
    ELSE Ret(EnterRunning(StepLoop(c, n_ticks)), "", AX_OK)

(* ax_step_ticks that gives up when the last-error text is set *)
ax_step_ticks_ErrorPending(c, err, n_ticks) ==
    IF c.lifecycle < AX_LIFECYCLE_CONTENT_LOADED
    THEN Ret(c, "ax_step_ticks: content not loaded", AX_ERR_BAD_STATE)
    ELSE IF n_ticks = 0 \/ err # ""
    THEN Ret(c, err, AX_OK)
    ELSE Ret(EnterRunning(StepLoop(c, n_ticks)), "", AX_OK)

ax_step_ticks(c, err, n_ticks) ==
    IF c.lifecycle < AX_LIFECYCLE_CONTENT_LOADED
    THEN Ret(c, "ax_step_ticks: content not loaded", AX_ERR_BAD_STATE)
    ELSE IF n_ticks = 0
    THEN Ret(c, err, AX_OK)
    ELSE Ret(EnterRunning(StepLoop(c, n_ticks)), "", AX_OK)

(* ------------------------------------------------------------------ *)
(* Bytes: little-endian fields of the packed structs                    *)
(* A uint32 read from a blob is kept as its two 16-bit halves           *)
(* [lo, hi], so that the 32-bit wrap of the source's arithmetic is      *)
(* computed exactly; U32Int is its value where that is below 2^31.      *)
(* ------------------------------------------------------------------ *)
LE16(v) == <<v % 256, (v \div 256) % 256>>
LE32(v) == <<v % 256, (v \div 256) % 256, (v \div 65536) % 256, (v \div 16777216) % 256>>
LE64(v) == LE32(v) \o <<0, 0, 0, 0>>

U32(lo, hi) == [lo |-> lo, hi |-> hi]
U32Of(n) == U32(n % 65536, n \div 65536)
U32Int(u) == u.lo + 65536 * u.hi
U32Add(a, b) ==
    LET l == a.lo + b.lo
    IN U32(l % 65536, (a.hi + b.hi + l \div 65536) % 65536)
U32MulSmall(a, k) ==
    LET l == a.lo * k
    IN U32(l % 65536, (a.hi * k + l \div 65536) % 65536)
U32Gt(a, b) == a.hi > b.hi \/ (a.hi = b.hi /\ a.lo > b.lo)
U32Lt(a, b) == U32Gt(b, a)
U32Bytes(u) == LE16(u.lo) \o LE16(u.hi)

(* what a read at 0-based offset off sees: the buffer's byte, or, past its
   end, the byte g that happens to lie there *)
ByteAt(buf, off, g) == IF off < Len(buf) THEN buf[off + 1] ELSE g
RdU16(buf, off, g) == ByteAt(buf, off, g) + 256 * ByteAt(buf, off + 1, g)
RdU32(buf, off, g) == U32(RdU16(buf, off, g), RdU16(buf, off + 2, g))
RdI32(buf, off, g) ==
    LET u == RdU32(buf, off, g)
    IN u.lo + 65536 * (IF u.hi >= 32768 THEN u.hi - 65536 ELSE u.hi)
(* a uint64 whose value is below 2^31 *)
RdU64(buf, off, g) ==
    LET lo == RdU32(buf, off, g)
        hi == RdU32(buf, off + 4, g)
    IN lo.lo + 65536 * (lo.hi + 32768 * (2 * hi.lo + 131072 * hi.hi))
(* a pointer offset: every offset from 65536 on lies past any buffer here *)
OffsetOf(u) == IF u.hi > 0 THEN 65536 ELSE u.lo

(* sizeof and offsetof of the packed save structs *)
SIZEOF_SAVE_HEADER == 24
SIZEOF_SAVE_WORLD == 64
SIZEOF_SAVE_TARGET == 40
CKSUM_OFFSET == 20
AX_SAVE_MAGIC_LO == 22593
AX_SAVE_MAGIC_HI == 22099
AX_SAVE_MAGIC == U32(AX_SAVE_MAGIC_LO, AX_SAVE_MAGIC_HI)

(* ------------------------------------------------------------------ *)
(* compute_save_checksum: the sum of the bytes outside the checksum     *)
(* field (below 2^31 for every buffer of the model, so never wrapped)   *)
(* ------------------------------------------------------------------ *)
(* the loop's sum over the offsets lo..hi-1, split in halves *)
RECURSIVE SumBytes(_, _, _)
SumBytes(data, lo, hi) ==
    IF lo >= hi THEN 0
    ELSE IF hi = lo + 1
    THEN (IF lo >= CKSUM_OFFSET /\ lo < CKSUM_OFFSET + 4 THEN 0 ELSE data[lo + 1])
    ELSE LET mid == (lo + hi) \div 2
         IN SumBytes(data, lo, mid) + SumBytes(data, mid, hi)

(* a checksum of the chunks alone, the header left out *)
compute_save_checksum_ChunksOnly(data, size) == SumBytes(data, CKSUM_OFFSET + 4, size)

compute_save_checksum(data, size) == SumBytes(data, 0, size)

(* ------------------------------------------------------------------ *)
(* ax_save_bytes                                                        *)
(* ------------------------------------------------------------------ *)
TargetIndexes(es) == {i \in 1..Len(es) : HasFlag(es[i].state_flags, AX_ENT_FLAG_TARGET)}

FirstPlayer(es) ==
    LET S == {i \in 1..Len(es) : HasFlag(es[i].state_flags, AX_ENT_FLAG_PLAYER)}
    IN IF S = {} THEN 0 ELSE SetMin(S)

TransformBytes(e) ==
    LE32(e.px) \o LE32(e.py) \o LE32(e.pz)
    \o LE32(e.rx) \o LE32(e.ry) \o LE32(e.rz) \o LE32(e.rw)

ZeroTransform == [px |-> 0, py |-> 0, pz |-> 0, rx |-> 0, ry |-> 0, rz |-> 0, rw |-> 0]

(* the world chunk with ammo_reserve written to both ammo fields *)
SaveWorldBytes_ReserveTwice(c, target_count, targets_offset) ==
    LET p == FirstPlayer(c.entities)
    IN LE64(c.tick) \o LE32(1000) \o LE32(2000)
       \o TransformBytes(IF p = 0 THEN ZeroTransform ELSE c.entities[p])
       \o LE32(c.weapon.ammo_reserve) \o LE32(c.weapon.ammo_reserve)
       \o LE32(c.weapon.reload_ticks_remaining)
       \o LE32(target_count) \o LE32(targets_offset)

SaveWorldBytes(c, target_count, targets_offset) ==
    LET p == FirstPlayer(c.entities)
    IN LE64(c.tick) \o LE32(1000) \o LE32(2000)
       \o TransformBytes(IF p = 0 THEN ZeroTransform ELSE c.entities[p])
       \o LE32(c.weapon.ammo_in_mag) \o LE32(c.weapon.ammo_reserve)
       \o LE32(c.weapon.reload_ticks_remaining)
       \o LE32(target_count) \o LE32(targets_offset)

SaveTargetBytes(e) ==
    LE32(e.id) \o TransformBytes(e) \o LE32(e.hp)
    \o LE32(IF HasFlag(e.state_flags, AX_ENT_FLAG_DEAD) THEN 1 ELSE 0)

RECURSIVE SaveTargetsBytes(_, _)
SaveTargetsBytes(es, i) ==
    IF i > Len(es) THEN <<>>
    ELSE (IF HasFlag(es[i].state_flags, AX_ENT_FLAG_TARGET)
          THEN SaveTargetBytes(es[i]) ELSE <<>>)
         \o SaveTargetsBytes(es, i + 1)

SaveHeaderBytes(total, world_offset, checksum32) ==
    U32Bytes(AX_SAVE_MAGIC) \o LE16(1) \o LE16(0) \o LE32(total)
    \o LE32(world_offset) \o LE32(SIZEOF_SAVE_WORLD) \o LE32(checksum32)

SaveTotal(c) ==
    SIZEOF_SAVE_HEADER + SIZEOF_SAVE_WORLD
    + Cardinality(TargetIndexes(c.entities)) * SIZEOF_SAVE_TARGET

(* the header is written last: once with a zero checksum field, then with the
   checksum of the whole blob *)
SaveSealed(total, world_offset, body) ==
    SaveHeaderBytes(total, world_offset,
                    compute_save_checksum(SaveHeaderBytes(total, world_offset, 0) \o body, total))
    \o body

SaveBlob(c) ==
    SaveSealed(SaveTotal(c), SIZEOF_SAVE_HEADER,
               SaveWorldBytes(c, Cardinality(TargetIndexes(c.entities)),
                              SIZEOF_SAVE_HEADER + SIZEOF_SAVE_WORLD)
               \o SaveTargetsBytes(c.entities, 1))

(* what a copy-out call hands back: out_size is -1 and out is << >> where the
   call wrote nothing there *)
RetOut(c, e, r, out_size, out) ==
    [core |-> c, err |-> e, res |-> r, out_size |-> out_size, out |-> out]

(* args: [out_null, out_cap, size_null] *)
ax_save_bytes(c, err, args) ==
    IF args.size_null
    THEN RetOut(c, "ax_save_bytes: out_size_bytes must not be NULL", AX_ERR_INVALID_ARG, -1, <<>>)
    ELSE IF c.lifecycle < AX_LIFECYCLE_CONTENT_LOADED
    THEN RetOut(c, "ax_save_bytes: content not loaded", AX_ERR_BAD_STATE, -1, <<>>)
    ELSE IF args.out_null
    THEN RetOut(c, err, AX_OK, SaveTotal(c), <<>>)
    ELSE IF args.out_cap < SaveTotal(c)
    THEN RetOut(c, "ax_save_bytes: buffer too small", AX_ERR_BUFFER_TOO_SMALL, SaveTotal(c), <<>>)
    ELSE RetOut(c, "", AX_OK, SaveTotal(c), SaveBlob(c))

(* ------------------------------------------------------------------ *)
(* ax_load_save_bytes                                                   *)
(* The buffer is buf and save_size_bytes is its length. g is the byte   *)
(* that lies past the end of the buffer, read when an offset the checks *)
(* let through points there; oob tells that such a read happened.       *)
(* ------------------------------------------------------------------ *)
(* the checks of the header, which read the buffer alone: the code and the
   message of the first one that fails, AX_OK when all pass *)
Verdict(res, msg) == [res |-> res, err |-> msg]

HeaderOf(buf) ==
    [magic |-> RdU32(buf, 0, 0),
     version_major |-> RdU16(buf, 4, 0),
     version_minor |-> RdU16(buf, 6, 0),
     total_size_bytes |-> RdU32(buf, 8, 0),
     world_chunk_offset |-> RdU32(buf, 12, 0),
     world_chunk_size_bytes |-> RdU32(buf, 16, 0),
     checksum32 |-> RdU32(buf, 20, 0)]

(* the checks with the major version looked at before the magic *)
HeaderCheck_VersionFirst(buf) ==
    LET size == Len(buf)
        hdr == HeaderOf(buf)
    IN IF size < SIZEOF_SAVE_HEADER
       THEN Verdict(AX_ERR_INVALID_ARG, "ax_load_save_bytes: buffer too small for header")
       ELSE IF hdr.version_major # 1
       THEN Verdict(AX_ERR_UNSUPPORTED, "ax_load_save_bytes: unsupported save version")
       ELSE IF hdr.magic # AX_SAVE_MAGIC
       THEN Verdict(AX_ERR_INVALID_ARG, "ax_load_save_bytes: bad magic")
       ELSE IF hdr.total_size_bytes # U32Of(size)
       THEN Verdict(AX_ERR_INVALID_ARG, "ax_load_save_bytes: total_size_bytes mismatch")
       ELSE IF hdr.checksum32 # U32Of(compute_save_checksum(buf, size))
       THEN Verdict(AX_ERR_INVALID_ARG, "ax_load_save_bytes: checksum mismatch")
       ELSE IF U32Gt(U32Add(hdr.world_chunk_offset, hdr.world_chunk_size_bytes), U32Of(size))
       THEN Verdict(AX_ERR_INVALID_ARG,
                    "ax_load_save_bytes: world chunk extends past end of buffer")
       ELSE IF U32Lt(hdr.world_chunk_size_bytes, U32Of(SIZEOF_SAVE_WORLD))
       THEN Verdict(AX_ERR_INVALID_ARG, "ax_load_save_bytes: world chunk too small")
       ELSE Verdict(AX_OK, "")

HeaderCheck(buf) ==
    LET size == Len(buf)
        hdr == HeaderOf(buf)
    IN IF size < SIZEOF_SAVE_HEADER
       THEN Verdict(AX_ERR_INVALID_ARG, "ax_load_save_bytes: buffer too small for header")
       ELSE IF hdr.magic # AX_SAVE_MAGIC
       THEN Verdict(AX_ERR_INVALID_ARG, "ax_load_save_bytes: bad magic")
       ELSE IF hdr.version_major # 1
       THEN Verdict(AX_ERR_UNSUPPORTED, "ax_load_save_bytes: unsupported save version")
       ELSE IF hdr.total_size_bytes # U32Of(size)
       THEN Verdict(AX_ERR_INVALID_ARG, "ax_load_save_bytes: total_size_bytes mismatch")
       ELSE IF hdr.checksum32 # U32Of(compute_save_checksum(buf, size))
       THEN Verdict(AX_ERR_INVALID_ARG, "ax_load_save_bytes: checksum mismatch")
       ELSE IF U32Gt(U32Add(hdr.world_chunk_offset, hdr.world_chunk_size_bytes), U32Of(size))
       THEN Verdict(AX_ERR_INVALID_ARG,
                    "ax_load_save_bytes: world chunk extends past end of buffer")
       ELSE IF U32Lt(hdr.world_chunk_size_bytes, U32Of(SIZEOF_SAVE_WORLD))
       THEN Verdict(AX_ERR_INVALID_ARG, "ax_load_save_bytes: world chunk too small")
       ELSE Verdict(AX_OK, "")

RetLoad(c, e, r, oob) == [core |-> c, err |-> e, res |-> r, oob |-> oob]

RdTransform(buf, off, g) ==
    [px |-> RdI32(buf, off, g), py |-> RdI32(buf, off + 4, g), pz |-> RdI32(buf, off + 8, g),
     rx |-> RdI32(buf, off + 12, g), ry |-> RdI32(buf, off + 16, g),
     rz |-> RdI32(buf, off + 20, g), rw |-> RdI32(buf, off + 24, g)]

WithTransform(e, t) ==
    [e EXCEPT !.px = t.px, !.py = t.py, !.pz = t.pz,
              !.rx = t.rx, !.ry = t.ry, !.rz = t.rz, !.rw = t.rw]

(* ax_save_target_v1 number i of the array at byte offset toff *)
RdTarget(buf, toff, i, g) ==
    LET off == toff + i * SIZEOF_SAVE_TARGET
    IN [entity_id |-> RdU32(buf, off, g),
        transform |-> RdTransform(buf, off + 4, g),
        hp |-> RdI32(buf, off + 32, g),
        flags |-> RdU32(buf, off + 36, g)]

FirstWithId(es, id) ==
    LET S == {j \in 1..Len(es) : U32Of(es[j].id) = id}
    IN IF S = {} THEN 0 ELSE SetMin(S)

(* a restore that takes the whole flag word from the save *)
RestoreTarget_FlagsFromSave(es, st) ==
    LET j == FirstWithId(es, st.entity_id)
    IN IF j = 0 THEN es
       ELSE [es EXCEPT ![j] =
               [WithTransform(@, st.transform) EXCEPT
                   !.hp = st.hp,
                   !.state_flags = U32Int(st.flags)]]

RestoreTarget(es, st) ==
    LET j == FirstWithId(es, st.entity_id)
    IN IF j = 0 THEN es
       ELSE [es EXCEPT ![j] =
               [WithTransform(@, st.transform) EXCEPT
                   !.hp = st.hp,
                   !.state_flags = IF st.flags.lo % 2 = 1
                                   THEN SetFlag(@, AX_ENT_FLAG_DEAD)
                                   ELSE ClearFlag(@, AX_ENT_FLAG_DEAD)]]

RECURSIVE RestoreTargets(_, _, _, _, _, _)
RestoreTargets(es, buf, toff, i, n, g) ==
    IF i >= n THEN es
    ELSE RestoreTargets(RestoreTarget(es, RdTarget(buf, toff, i, g)), buf, toff, i + 1, n, g)

RestorePlayer(es, t) ==
    LET p == FirstPlayer(es)
    IN IF p = 0 THEN es ELSE [es EXCEPT ![p] = WithTransform(@, t)]

(* the records of the target array that are told apart: those that begin
   inside the buffer and the first one past it (all later ones read the same
   bytes g) *)
TargetsRead(count, size) ==
    LET n == IF count.hi > 0 THEN 65536 ELSE count.lo
        m == size \div SIZEOF_SAVE_TARGET + 2
    IN IF n < m THEN n ELSE m

(* a load that restores the ammunition but not the reload countdown *)
LoadApply_NoCountdown(c, buf, w, toff, n, g) ==
    [c EXCEPT
        !.tick = RdU64(buf, w, g),
        !.entities = RestoreTargets(RestorePlayer(@, RdTransform(buf, w + 16, g)),
                                    buf, toff, 0, n, g),
        !.weapon.ammo_in_mag = RdI32(buf, w + 44, g),
        !.weapon.ammo_reserve = RdI32(buf, w + 48, g),
        !.action_queue = <<>>,
        !.events = <<>>]

(* a load that also puts the lifecycle back to CONTENT_LOADED *)
LoadApply_Reloaded(c, buf, w, toff, n, g) ==
    [c EXCEPT
        !.lifecycle = AX_LIFECYCLE_CONTENT_LOADED,
        !.tick = RdU64(buf, w, g),
        !.entities = RestoreTargets(RestorePlayer(@, RdTransform(buf, w + 16, g)),
                                    buf, toff, 0, n, g),
        !.weapon.ammo_in_mag = RdI32(buf, w + 44, g),
        !.weapon.ammo_reserve = RdI32(buf, w + 48, g),
        !.weapon.reload_ticks_remaining = U32Int(RdU32(buf, w + 52, g)),
        !.weapon.reloading = (U32Int(RdU32(buf, w + 52, g)) > 0),
        !.action_queue = <<>>,
        !.events = <<>>]

(* a load that restores the countdown and leaves the reloading flag as it is *)
LoadApply_FlagKept(c, buf, w, toff, n, g) ==
    [c EXCEPT
        !.tick = RdU64(buf, w, g),
        !.entities = RestoreTargets(RestorePlayer(@, RdTransform(buf, w + 16, g)),
                                    buf, toff, 0, n, g),
        !.weapon.ammo_in_mag = RdI32(buf, w + 44, g),
        !.weapon.ammo_reserve = RdI32(buf, w + 48, g),
        !.weapon.reload_ticks_remaining = U32Int(RdU32(buf, w + 52, g)),
        !.action_queue = <<>>,
        !.events = <<>>]

(* a load that restores the world and leaves the action queue as it is *)
LoadApply_KeepsQueue(c, buf, w, toff, n, g) ==
    [c EXCEPT
        !.tick = RdU64(buf, w, g),
        !.entities = RestoreTargets(RestorePlayer(@, RdTransform(buf, w + 16, g)),
                                    buf, toff, 0, n, g),
        !.weapon.ammo_in_mag = RdI32(buf, w + 44, g),
        !.weapon.ammo_reserve = RdI32(buf, w + 48, g),
        !.weapon.reload_ticks_remaining = U32Int(RdU32(buf, w + 52, g)),
        !.weapon.reloading = (U32Int(RdU32(buf, w + 52, g)) > 0),
        !.events = <<>>]

LoadApply(c, buf, w, toff, n, g) ==
    [c EXCEPT
        !.tick = RdU64(buf, w, g),
        !.entities = RestoreTargets(RestorePlayer(@, RdTransform(buf, w + 16, g)),
                                    buf, toff, 0, n, g),
        !.weapon.ammo_in_mag = RdI32(buf, w + 44, g),
        !.weapon.ammo_reserve = RdI32(buf, w + 48, g),
        !.weapon.reload_ticks_remaining = U32Int(RdU32(buf, w + 52, g)),
        !.weapon.reloading = (U32Int(RdU32(buf, w + 52, g)) > 0),
        !.action_queue = <<>>,
        !.events = <<>>]

(* the load that sets the tick as soon as it has read the world chunk,
   before it looks at the targets *)
LoadWorld_TickFirst(c, err, buf, size, g) ==
    LET w == OffsetOf(HeaderOf(buf).world_chunk_offset)
        target_count == RdU32(buf, w + 56, g)
        targets_offset_bytes == RdU32(buf, w + 60, g)
        targets_end == U32Add(targets_offset_bytes,
                              U32MulSmall(target_count, SIZEOF_SAVE_TARGET))
        toff == OffsetOf(targets_offset_bytes)
        n == TargetsRead(target_count, size)
        oob_world == w + SIZEOF_SAVE_WORLD > size
        oob == oob_world \/ (n > 0 /\ toff + n * SIZEOF_SAVE_TARGET > size)
        missing == \E i \in 0..(n - 1) :
                      FirstWithId(c.entities, RdU32(buf, toff + i * SIZEOF_SAVE_TARGET, g)) = 0
        ticked == [c EXCEPT !.tick = RdU64(buf, w, g)]
    IN IF U32Gt(targets_end, U32Of(size))
       THEN RetLoad(ticked, "ax_load_save_bytes: target array extends past end of buffer",
                    AX_ERR_INVALID_ARG, oob_world)
       ELSE IF missing
       THEN RetLoad(ticked, "ax_load_save_bytes: saved target entity_id not found in world",
                    AX_ERR_INVALID_ARG, oob)
       ELSE RetLoad(LoadApply(c, buf, w, toff, n, g), "", AX_OK, oob)

LoadWorld(c, err, buf, size, g) ==
    LET w == OffsetOf(HeaderOf(buf).world_chunk_offset)
        target_count == RdU32(buf, w + 56, g)
        targets_offset_bytes == RdU32(buf, w + 60, g)
        targets_end == U32Add(targets_offset_bytes,
                              U32MulSmall(target_count, SIZEOF_SAVE_TARGET))
        toff == OffsetOf(targets_offset_bytes)
        n == TargetsRead(target_count, size)
        oob_world == w + SIZEOF_SAVE_WORLD > size
        oob == oob_world \/ (n > 0 /\ toff + n * SIZEOF_SAVE_TARGET > size)
        missing == \E i \in 0..(n - 1) :
                      FirstWithId(c.entities, RdU32(buf, toff + i * SIZEOF_SAVE_TARGET, g)) = 0
    IN IF U32Gt(targets_end, U32Of(size))
       THEN RetLoad(c, "ax_load_save_bytes: target array extends past end of buffer",
                    AX_ERR_INVALID_ARG, oob_world)
       ELSE IF missing
       THEN RetLoad(c, "ax_load_save_bytes: saved target entity_id not found in world",
                    AX_ERR_INVALID_ARG, oob)
       ELSE RetLoad(LoadApply(c, buf, w, toff, n, g), "", AX_OK, oob)

(* ------------------------------------------------------------------ *)
(* ax_get_snapshot_bytes                                                *)
(* ------------------------------------------------------------------ *)
SIZEOF_SNAPSHOT_HEADER == 40
SIZEOF_SNAPSHOT_ENTITY == 44
SIZEOF_SNAPSHOT_WEAPON == 24
SIZEOF_SNAPSHOT_EVENT == 16

HasWeapon(c) == IF FirstPlayer(c.entities) = 0 THEN 0 ELSE 1

SnapshotTotal(c) ==
    SIZEOF_SNAPSHOT_HEADER
    + Len(c.entities) * SIZEOF_SNAPSHOT_ENTITY
    + HasWeapon(c) * SIZEOF_SNAPSHOT_WEAPON
    + Len(c.events) * SIZEOF_SNAPSHOT_EVENT

SnapshotHeaderBytes(c) ==
    LE16(1) \o LE16(0) \o LE32(SnapshotTotal(c)) \o LE64(c.tick)
    \o LE32(Len(c.entities)) \o LE32(SIZEOF_SNAPSHOT_ENTITY)
    \o LE32(Len(c.events)) \o LE32(SIZEOF_SNAPSHOT_EVENT)
    \o LE32(0) \o LE32(HasWeapon(c))

SnapshotEntityBytes(e) ==
    LE32(e.id) \o LE32(e.archetype_id) \o TransformBytes(e)
    \o LE32(e.hp) \o LE32(e.state_flags)

reload_progress(w) ==
    IF w.reloading /\ w.reload_ticks_remaining > 0
    THEN FX - FQuot(w.reload_ticks_remaining, RELOAD_TICKS)
    ELSE 0

SnapshotWeaponBytes(w) ==
    LE32(w.player_id) \o LE32(w.weapon_slot) \o LE32(w.ammo_in_mag) \o LE32(w.ammo_reserve)
    \o LE32(IF w.reloading THEN AX_WPN_FLAG_RELOADING ELSE 0)
    \o LE32(reload_progress(w))

SnapshotEventBytes(ev) == LE32(ev.type) \o LE32(ev.a) \o LE32(ev.b) \o LE32(ev.value)

RECURSIVE ConcatMap(_, _, _)
ConcatMap(Op(_), s, i) ==
    IF i > Len(s) THEN <<>> ELSE Op(s[i]) \o ConcatMap(Op, s, i + 1)

SnapshotBlob(c) ==
    SnapshotHeaderBytes(c)
    \o ConcatMap(SnapshotEntityBytes, c.entities, 1)
    \o (IF HasWeapon(c) = 1 THEN SnapshotWeaponBytes(c.weapon) ELSE <<>>)
    \o ConcatMap(SnapshotEventBytes, c.events, 1)

(* ax_get_snapshot_bytes that empties the event log once it has copied it *)
ax_get_snapshot_bytes_Drains(c, err, args) ==
    IF args.size_null
    THEN RetOut(c, "ax_get_snapshot_bytes: out_size_bytes must not be NULL",
                AX_ERR_INVALID_ARG, -1, <<>>)
    ELSE IF c.lifecycle < AX_LIFECYCLE_CONTENT_LOADED
    THEN RetOut(c, "ax_get_snapshot_bytes: content not loaded", AX_ERR_BAD_STATE, -1, <<>>)
    ELSE IF args.out_null
    THEN RetOut(c, err, AX_OK, SnapshotTotal(c), <<>>)
    ELSE IF args.out_cap < SnapshotTotal(c)
    THEN RetOut(c, "ax_get_snapshot_bytes: buffer too small", AX_ERR_BUFFER_TOO_SMALL,
                SnapshotTotal(c), <<>>)
    ELSE RetOut([c EXCEPT !.events = <<>>], "", AX_OK, SnapshotTotal(c), SnapshotBlob(c))

(* ax_get_snapshot_bytes that leaves *out_size_bytes alone when the buffer
   is too small *)
ax_get_snapshot_bytes_SilentSmall(c, err, args) ==
    IF args.size_null
    THEN RetOut(c, "ax_get_snapshot_bytes: out_size_bytes must not be NULL",
                AX_ERR_INVALID_ARG, -1, <<>>)
    ELSE IF c.lifecycle < AX_LIFECYCLE_CONTENT_LOADED
    THEN RetOut(c, "ax_get_snapshot_bytes: content not loaded", AX_ERR_BAD_STATE, -1, <<>>)
    ELSE IF args.out_null
    THEN RetOut(c, err, AX_OK, SnapshotTotal(c), <<>>)
    ELSE IF args.out_cap < SnapshotTotal(c)
    THEN RetOut(c, "ax_get_snapshot_bytes: buffer too small", AX_ERR_BUFFER_TOO_SMALL,
                -1, <<>>)
    ELSE RetOut(c, "", AX_OK, SnapshotTotal(c), SnapshotBlob(c))

(* args: [out_null, out_cap, size_null] *)
ax_get_snapshot_bytes(c, err, args) ==
    IF args.size_null
    THEN RetOut(c, "ax_get_snapshot_bytes: out_size_bytes must not be NULL",
                AX_ERR_INVALID_ARG, -1, <<>>)
    ELSE IF c.lifecycle < AX_LIFECYCLE_CONTENT_LOADED
    THEN RetOut(c, "ax_get_snapshot_bytes: content not loaded", AX_ERR_BAD_STATE, -1, <<>>)
    ELSE IF args.out_null
    THEN RetOut(c, err, AX_OK, SnapshotTotal(c), <<>>)
    ELSE IF args.out_cap < SnapshotTotal(c)
    THEN RetOut(c, "ax_get_snapshot_bytes: buffer too small", AX_ERR_BUFFER_TOO_SMALL,
                SnapshotTotal(c), <<>>)
    ELSE RetOut(c, "", AX_OK, SnapshotTotal(c), SnapshotBlob(c))

(* ------------------------------------------------------------------ *)
(* ax_get_diagnostics: out is <<version, abi_major, abi_minor,          *)
(* current_tick, feature_flags>>                                        *)
(* ------------------------------------------------------------------ *)
ax_get_diagnostics(c, err, out_null) ==
    IF out_null
    THEN RetOut(c, "ax_get_diagnostics: out_diag must not be NULL", AX_ERR_INVALID_ARG, -1, <<>>)
    ELSE RetOut(c, "", AX_OK, -1, <<1, 0, 1, c.tick, 0>>)

(* ------------------------------------------------------------------ *)
(* Inputs of the calls                                                  *)
(* ------------------------------------------------------------------ *)
Act(tick, actor_id, type, u0, u1) ==
    [tick |-> tick, actor_id |-> actor_id, type |-> type, u0 |-> u0, u1 |-> u1]

Fire(t) == Act(t, PLAYER_ID, AX_ACT_FIRE_ONCE, 0, 0)
Reload(t) == Act(t, PLAYER_ID, AX_ACT_RELOAD, 0, 0)
Move(t) == Act(t, PLAYER_ID, AX_ACT_MOVE_INTENT, 3 * FX, 4 * FX)
Look(t) == Act(t, PLAYER_ID, AX_ACT_LOOK_INTENT, FX \div 2, 0)
BadType(t) == Act(t, PLAYER_ID, 7, 0, 0)
MoveNaN(t) == Act(t, PLAYER_ID, AX_ACT_MOVE_INTENT, F_NAN, 0)

SeqsUpTo(S, n) == UNION {[1..k -> S] : k \in 1..n}

ContentParams ==
    {[tag |-> "ok", null |-> FALSE, version |-> 1, size_ok |-> TRUE, root_path |-> "content/"],
     [tag |-> "null", null |-> TRUE, version |-> 1, size_ok |-> TRUE, root_path |-> "content/"],
     [tag |-> "version", null |-> FALSE, version |-> 2, size_ok |-> TRUE, root_path |-> "content/"],
     [tag |-> "size", null |-> FALSE, version |-> 1, size_ok |-> FALSE, root_path |-> "content/"],
     [tag |-> "root", null |-> FALSE, version |-> 1, size_ok |-> TRUE, root_path |-> ""]}

Batch(tag, null, version, size_ok, actions_null, actions) ==
    [tag |-> tag, null |-> null, version |-> version, size_ok |-> size_ok,
     count |-> Len(actions), actions_null |-> actions_null, actions |-> actions]

MalformedBatches(a) ==
    {Batch("null", TRUE, 1, TRUE, FALSE, <<a>>),
     Batch("version", FALSE, 2, TRUE, FALSE, <<a>>),
     Batch("size", FALSE, 1, FALSE, FALSE, <<a>>),
     Batch("empty", FALSE, 1, TRUE, TRUE, <<>>),
     [Batch("actions_null", FALSE, 1, TRUE, TRUE, <<>>) EXCEPT !.count = 1]}

(* the out_buf/out_cap/out_size_bytes of a copy-out call that needs total bytes *)
OutArgs(total) ==
    {[tag |-> "size_null", out_null |-> TRUE, out_cap |-> 0, size_null |-> TRUE],
     [tag |-> "query", out_null |-> TRUE, out_cap |-> 0, size_null |-> FALSE],
     [tag |-> "small", out_null |-> FALSE, out_cap |-> total - 1, size_null |-> FALSE],
     [tag |-> "exact", out_null |-> FALSE, out_cap |-> total, size_null |-> FALSE],
     [tag |-> "roomy", out_null |-> FALSE, out_cap |-> total + 1, size_null |-> FALSE]}

(* save blobs a host may hold: written by ax_save_bytes in two states the
   program reaches, and copies of them changed by the host *)
SampleCombat ==
    StepLoop([LoadedCore EXCEPT !.action_queue =
                 <<Fire(1), Fire(1), Fire(1), Fire(1), Fire(1), Reload(2)>>], 2)

SetBytes(buf, off, bytes) ==
    [i \in 1..Len(buf) |->
        IF i - 1 >= off /\ i - 1 < off + Len(bytes) THEN bytes[i - off] ELSE buf[i]]

FixChecksum(buf) == SetBytes(buf, CKSUM_OFFSET, LE32(compute_save_checksum(buf, Len(buf))))

WORLD_AT == SIZEOF_SAVE_HEADER
TARGETS_AT == SIZEOF_SAVE_HEADER + SIZEOF_SAVE_WORLD

Blob(tag, buf) == [tag |-> tag, buf_null |-> FALSE, buf |-> buf]

LoadInputs ==
    LET G0 == SaveBlob(LoadedCore)
        G1 == SaveBlob(SampleCombat)
    IN {[tag |-> "null", buf_null |-> TRUE, buf |-> <<>>],
        Blob("empty", <<>>),
        Blob("dummy", <<0>>),
        Blob("fresh", G0),
        Blob("combat", G1),
        Blob("bad_magic", SetBytes(G1, 0, <<0>>)),
        Blob("bad_major", SetBytes(G1, 4, LE16(2))),
        Blob("bad_magic_major", SetBytes(SetBytes(G1, 0, <<0>>), 4, LE16(2))),
        Blob("truncated", SubSeq(G1, 1, Len(G1) - 1)),
        Blob("bad_checksum", SetBytes(G1, WORLD_AT + 44, <<9>>)),
        Blob("world_past_end", FixChecksum(SetBytes(G1, 12, LE32(200)))),
        Blob("world_small", FixChecksum(SetBytes(G1, 16, LE32(63)))),
        Blob("world_wrap", FixChecksum(SetBytes(SetBytes(G1, 12, U32Bytes(U32(65520, 65535))),
                                                16, LE32(80)))),
        Blob("targets_past_end", FixChecksum(SetBytes(G1, WORLD_AT + 60, LE32(100)))),
        Blob("count_wrap", FixChecksum(SetBytes(G1, WORLD_AT + 56, U32Bytes(U32(26215, 1638))))),
        Blob("unknown_id", FixChecksum(SetBytes(G1, TARGETS_AT, LE32(999)))),
        Blob("player_id", FixChecksum(SetBytes(G1, TARGETS_AT, LE32(PLAYER_ID)))),
        Blob("ammo_100", FixChecksum(SetBytes(G1, WORLD_AT + 44, LE32(100)))),
        Blob("no_targets", FixChecksum(SetBytes(G1, WORLD_AT + 56, LE32(0)))),
        Blob("undead", FixChecksum(SetBytes(G1, TARGETS_AT + 36, LE32(2))))}

(* the bytes that may lie past the end of a buffer *)
GarbageBytes == {0, 1}

(* HeaderCheck of the blobs of LoadInputs, each computed once; a blob that is
   not one of them carries the tag "saved" *)
HeaderTable == [tag \in {x.tag : x \in LoadInputs} |->
                   HeaderCheck((CHOOSE x \in LoadInputs : x.tag = tag).buf)]

HeaderChecked(args) ==
    IF args.tag = "saved" THEN HeaderCheck(args.buf) ELSE HeaderTable[args.tag]

(* args: [tag, buf_null, buf] *)
ax_load_save_bytes(c, err, args, g) ==
    IF args.buf_null
    THEN RetLoad(c, "ax_load_save_bytes: save_buf must not be NULL", AX_ERR_INVALID_ARG, FALSE)
    ELSE IF Len(args.buf) = 0
    THEN RetLoad(c, "ax_load_save_bytes: save_size_bytes must be > 0", AX_ERR_INVALID_ARG, FALSE)
    ELSE IF c.lifecycle < AX_LIFECYCLE_CONTENT_LOADED
    THEN RetLoad(c, "ax_load_save_bytes: content must be loaded before loading a save",
                 AX_ERR_BAD_STATE, FALSE)
    ELSE LET h == HeaderChecked(args)
         IN IF h.res # AX_OK
            THEN RetLoad(c, h.err, h.res, FALSE)
            ELSE LoadWorld(c, err, args.buf, Len(args.buf), g)

(* ------------------------------------------------------------------ *)
(* One instance driven through the whole ABI                            *)
(*   core          the instance (struct ax_core)                        *)
(*   g_last_error  the process-wide last-error text                     *)
(*   ret           the call that has just returned: its name, its input,*)
(*                 the lifecycle it found (from) and what it handed     *)
(*                 back; "idle" once the host has taken the result and  *)
(*                 may make its next call                               *)
(*   twin          a second instance of the same process, with what the *)
(*                 host keeps to drive it: the calls made on the first  *)
(*                 instance (script), what the first instance looked    *)
(*                 like after each (trace), how many of them the second *)
(*                 has been given (pos), and a save blob of the first   *)
(* ------------------------------------------------------------------ *)
VARIABLES core, g_last_error, ret, twin

vars == <<core, g_last_error, ret, twin>>

(* a call that has not returned: the process died in it, or is still in it *)
NO_RETURN == -1

Returned(op, tag, n, r) ==
    [op |-> op, tag |-> tag, n |-> n, from |-> AX_LIFECYCLE_CREATED, res |-> r.res,
     out_size |-> -1, out |-> <<>>, oob |-> FALSE]

ReturnedOut(op, tag, r) ==
    [op |-> op, tag |-> tag, n |-> 0, from |-> AX_LIFECYCLE_CREATED, res |-> r.res,
     out_size |-> r.out_size, out |-> r.out, oob |-> FALSE]

IdleRet == Returned("idle", "", 0, [res |-> AX_OK])

Idle == ret.op = "idle"

(* what a snapshot shows of an instance *)
Observable(c) ==
    [tick |-> c.tick, entities |-> c.entities, weapon |-> c.weapon, events |-> c.events]

TwinInit ==
    [core |-> NewCore, script |-> <<>>, trace |-> <<>>, pos |-> 0,
     blob |-> <<>>, saved_at |-> 0, loaded |-> FALSE]

Init ==
    /\ core = NewCore
    /\ g_last_error = ""
    /\ ret = Returned("ax_create", "ok", 0, [res |-> AX_OK])
    /\ twin = TwinInit

Finish(r, rec) ==
    /\ core' = r.core
    /\ g_last_error' = r.err
    /\ ret' = [rec EXCEPT !.from = core.lifecycle]
    /\ UNCHANGED twin

(* the host takes the result of the call *)
Resume ==
    /\ ~Idle
    /\ ret.res # NO_RETURN
    /\ ret' = IdleRet
    /\ UNCHANGED <<core, g_last_error, twin>>

LoadContent ==
    /\ Idle
    /\ \E params \in ContentParams :
          \E r \in {ax_load_content(core, g_last_error, params)} :
             Finish(r, Returned("ax_load_content", params.tag, 0, r))

UnloadContent ==
    /\ Idle
    /\ \E r \in {ax_unload_content(core, g_last_error)} :
          Finish(r, Returned("ax_unload_content", "ok", 0, r))

(* batches of up to MaxQueue actions drawn from A, and the malformed ones *)
Batches(A, a) ==
    {Batch("actions", FALSE, 1, TRUE, FALSE, as) : as \in SeqsUpTo(A, MaxQueue)}
    \cup MalformedBatches(a)

SubmitFrom(B) ==
    \E batch \in B :
       /\ Len(core.action_queue) + Len(batch.actions) <= MaxQueue
       /\ \E r \in {ax_submit_actions(core, g_last_error, batch)} :
             Finish(r, Returned("ax_submit_actions", batch.tag, Len(batch.actions), r))

(* fire, reload and an unknown type, each aimed at one of the next MaxAhead ticks *)
SpecActions(t) ==
    UNION {{Fire(t + dt), Reload(t + dt), BadType(t + dt)} : dt \in 1..MaxAhead}

SubmitActions ==
    /\ Idle
    /\ SubmitFrom(Batches(SpecActions(core.tick), Fire(core.tick + 1)))

StepTicks ==
    /\ Idle
    /\ \E n \in 0..MaxStep :
          /\ core.tick + n <= MaxTick
          /\ \E r \in {ax_step_ticks(core, g_last_error, n)} :
                Finish(r, Returned("ax_step_ticks", "ok", n, r))

GetSnapshotBytes ==
    /\ Idle
    /\ \E args \in OutArgs(SnapshotTotal(core)) :
          \E r \in {ax_get_snapshot_bytes(core, g_last_error, args)} :
             Finish(r, ReturnedOut("ax_get_snapshot_bytes", args.tag, r))

SaveBytes ==
    /\ Idle
    /\ \E args \in OutArgs(SaveTotal(core)) :
          \E r \in {ax_save_bytes(core, g_last_error, args)} :
             Finish(r, ReturnedOut("ax_save_bytes", args.tag, r))

(* the call returns, or, after a read past the end of the buffer, may not *)
LoadFrom(I) ==
    \E args \in I, g \in GarbageBytes :
       \E r \in {ax_load_save_bytes(core, g_last_error, args, g)} :
          \/ Finish(r, [Returned("ax_load_save_bytes", args.tag, 0, r) EXCEPT !.oob = r.oob])
          \/ /\ r.oob
             /\ ret' = [Returned("ax_load_save_bytes", args.tag, 0, [res |-> NO_RETURN])
                           EXCEPT !.oob = TRUE, !.from = core.lifecycle]
             /\ UNCHANGED <<core, g_last_error, twin>>

SpecLoadTags == {"null", "empty", "dummy", "fresh", "combat", "bad_major"}

LoadSaveBytes ==
    /\ Idle
    /\ LoadFrom({x \in LoadInputs : x.tag \in SpecLoadTags})

GetDiagnostics ==
    /\ Idle
    /\ \E out_null \in BOOLEAN :
          \E r \in {ax_get_diagnostics(core, g_last_error, out_null)} :
             Finish(r, ReturnedOut("ax_get_diagnostics",
                                   IF out_null THEN "null" ELSE "ok", r))

Next ==
    \/ Resume
    \/ LoadContent
    \/ UnloadContent
    \/ SubmitActions
    \/ StepTicks
    \/ GetSnapshotBytes
    \/ SaveBytes
    \/ LoadSaveBytes
    \/ GetDiagnostics

Spec == Init /\ [][Next]_vars

(* ------------------------------------------------------------------ *)
(* Lifecycle                                                            *)
(* A step of Spec other than Resume is one call: core is the instance   *)
(* before it, core' the instance after it, ret' the call and its result *)
(* ------------------------------------------------------------------ *)
Call(op) == Idle /\ ret'.op = op

Failed == ret'.res \notin {AX_OK, NO_RETURN}

(* tick, entities, weapon, action queue and event log *)
World(c) == <<c.tick, c.entities, c.weapon, c.action_queue, c.events>>

GatedOps ==
    {"ax_submit_actions", "ax_step_ticks", "ax_get_snapshot_bytes",
     "ax_save_bytes", "ax_load_save_bytes"}

(* the pointer arguments that are tested before the lifecycle: the batch,
   out_size_bytes, save_buf, params *)
NullArgTags == {"null", "size_null"}

(* C5 as stated: in Created, each of submit_actions, step_ticks,
   get_snapshot_bytes, save_bytes and load_save_bytes called with non-null
   arguments returns BadState and changes nothing in the instance. *)
C5_Stated ==
    [][(/\ \E op \in GatedOps : Call(op)
        /\ core.lifecycle = AX_LIFECYCLE_CREATED
        /\ ret'.tag \notin NullArgTags)
       => (ret'.res = AX_ERR_BAD_STATE /\ core' = core)]_vars

(* C5: in Created, each of submit_actions, step_ticks, get_snapshot_bytes,
   save_bytes and load_save_bytes called with non-null arguments, and
   load_save_bytes with a save size other than 0, returns BadState; with or
   without that size, the call changes nothing in the instance (tick,
   entities, weapon, action queue, event log, lifecycle). *)
C5_GatedInCreated ==
    [][(/\ \E op \in GatedOps : Call(op)
        /\ core.lifecycle = AX_LIFECYCLE_CREATED
        /\ ret'.tag \notin NullArgTags)
       => /\ core' = core
          /\ IF ret'.op = "ax_load_save_bytes" /\ ret'.tag = "empty"
             THEN ret'.res = AX_ERR_INVALID_ARG
             ELSE ret'.res = AX_ERR_BAD_STATE]_vars

(* a save blob of a loaded world is offered to an instance in Created *)
C5_Witness ==
    /\ ret.op = "ax_load_save_bytes"
    /\ ret.tag = "fresh"
    /\ ret.res = AX_ERR_BAD_STATE
    /\ core = NewCore

(* C6 as stated: load_content called in ContentLoaded or Running returns
   BadState and leaves the instance unchanged. *)
C6_Stated ==
    [][(Call("ax_load_content") /\ core.lifecycle # AX_LIFECYCLE_CREATED)
       => (ret'.res = AX_ERR_BAD_STATE /\ core' = core)]_vars

(* C6: load_content succeeds only when the lifecycle is exactly Created;
   called in ContentLoaded or Running it fails and leaves tick, entities,
   weapon, action queue, event log and lifecycle unchanged, and the failure
   is BadState when params is not null (InvalidArg when it is). *)
C6_LoadContentOnlyFromCreated ==
    [][Call("ax_load_content")
       => /\ ret'.res = AX_OK => core.lifecycle = AX_LIFECYCLE_CREATED
          /\ core.lifecycle # AX_LIFECYCLE_CREATED
             => /\ core' = core
                /\ IF ret'.tag = "null"
                   THEN ret'.res = AX_ERR_INVALID_ARG
                   ELSE ret'.res = AX_ERR_BAD_STATE]_vars

(* a second load_content with good params on a stepped world with events *)
C6_Witness ==
    /\ ret.op = "ax_load_content"
    /\ ret.tag = "ok"
    /\ ret.res = AX_ERR_BAD_STATE
    /\ core.lifecycle = AX_LIFECYCLE_RUNNING
    /\ core.tick > 0
    /\ core.events # <<>>

(* C7: unload_content succeeds from every lifecycle state and ends in
   lifecycle Created with tick 0, no entities, an empty action queue, an empty
   event log and a zeroed weapon; so a second unload_content right after it
   ends in the same state. *)
C7_UnloadResets ==
    [][Call("ax_unload_content")
       => /\ ret'.res = AX_OK
          /\ core'.lifecycle = AX_LIFECYCLE_CREATED
          /\ core'.tick = 0
          /\ core'.entities = <<>>
          /\ core'.action_queue = <<>>
          /\ core'.events = <<>>
          /\ core'.weapon = ZeroWeapon
          /\ ax_unload_content(core', g_last_error').core = core']_vars

(* unload_content of a Running instance *)
C7_Witness ==
    /\ ret.op = "ax_unload_content"
    /\ ret.from = AX_LIFECYCLE_RUNNING
    /\ ret.res = AX_OK
    /\ core = NewCore

(* C8 as stated: after any successful step_ticks call the lifecycle is
   Running. *)
C8_Stated ==
    (ret.op = "ax_step_ticks" /\ ret.res = AX_OK)
    => core.lifecycle = AX_LIFECYCLE_RUNNING

(* C8: after any successful step_ticks(n) call with n >= 1 the lifecycle is
   Running; a successful step_ticks(0) leaves the lifecycle as it found it,
   ContentLoaded included. *)
C8_RunningAfterStep ==
    (ret.op = "ax_step_ticks" /\ ret.res = AX_OK)
    => core.lifecycle = (IF ret.n >= 1 THEN AX_LIFECYCLE_RUNNING ELSE ret.from)

(* the first step of a ContentLoaded instance *)
C8_Witness ==
    /\ ret.op = "ax_step_ticks"
    /\ ret.res = AX_OK
    /\ ret.n >= 1
    /\ ret.from = AX_LIFECYCLE_CONTENT_LOADED
    /\ core.lifecycle = AX_LIFECYCLE_RUNNING

(* C9: the lifecycle changes only from Created to ContentLoaded by a
   successful load_content, from ContentLoaded to Running by a successful
   step_ticks, and from any state to Created by unload_content; every other
   call, and every failing call, leaves it unchanged, so a Running instance
   never returns to ContentLoaded. *)
C9_LifecycleTransitions ==
    [][core'.lifecycle # core.lifecycle
       => \/ /\ Call("ax_load_content")
             /\ ret'.res = AX_OK
             /\ core.lifecycle = AX_LIFECYCLE_CREATED
             /\ core'.lifecycle = AX_LIFECYCLE_CONTENT_LOADED
          \/ /\ Call("ax_step_ticks")
             /\ ret'.res = AX_OK
             /\ core.lifecycle = AX_LIFECYCLE_CONTENT_LOADED
             /\ core'.lifecycle = AX_LIFECYCLE_RUNNING
          \/ /\ Call("ax_unload_content")
             /\ core'.lifecycle = AX_LIFECYCLE_CREATED]_vars

(* a save of a ContentLoaded world is loaded into a Running instance, which
   stays Running *)
C9_Witness ==
    /\ ret.op = "ax_load_save_bytes"
    /\ ret.tag = "fresh"
    /\ ret.res = AX_OK
    /\ ret.from = AX_LIFECYCLE_RUNNING
    /\ core.lifecycle = AX_LIFECYCLE_RUNNING
    /\ core.tick = 0

(* C10: step_ticks(n) on an instance with lifecycle at least ContentLoaded
   succeeds and increases tick by exactly n; step_ticks(0) leaves tick,
   entities, weapon, action queue and event log unchanged. *)
C10_StepAdvancesByN ==
    [][(Call("ax_step_ticks") /\ core.lifecycle >= AX_LIFECYCLE_CONTENT_LOADED)
       => /\ ret'.res = AX_OK
          /\ core'.tick = core.tick + ret'.n
          /\ ret'.n = 0 => World(core') = World(core)]_vars

(* step_ticks(0) on a world that has events and a queued action *)
C10_Witness ==
    /\ ret.op = "ax_step_ticks"
    /\ ret.n = 0
    /\ ret.res = AX_OK
    /\ core.events # <<>>
    /\ core.action_queue # <<>>

(* ------------------------------------------------------------------ *)
(* A host that loads save blobs, its own and changed ones, into a       *)
(* world it has loaded, fired in and stepped                            *)
(* ------------------------------------------------------------------ *)
HostLoadContent ==
    /\ Idle
    /\ \E params \in {x \in ContentParams : x.tag = "ok"} :
          \E r \in {ax_load_content(core, g_last_error, params)} :
             Finish(r, Returned("ax_load_content", params.tag, 0, r))

HostSubmit ==
    /\ Idle
    /\ \E as \in {<<Fire(core.tick + 1)>>, <<Reload(core.tick + 1)>>,
                  <<Fire(core.tick + 1), Reload(core.tick + 1)>>} :
          SubmitFrom({Batch("actions", FALSE, 1, TRUE, FALSE, as)})

HostStep ==
    /\ Idle
    /\ \E n \in 1..MaxStep :
          /\ core.tick + n <= MaxTick
          /\ \E r \in {ax_step_ticks(core, g_last_error, n)} :
                Finish(r, Returned("ax_step_ticks", "ok", n, r))

(* the blobs of LoadInputs that ax_save_bytes wrote or that a check refuses *)
RefusedLoadTags ==
    {"null", "empty", "dummy", "fresh", "combat", "bad_magic", "bad_major",
     "bad_magic_major", "truncated", "bad_checksum", "world_past_end",
     "world_small", "world_wrap", "targets_past_end", "count_wrap", "unknown_id"}

HostLoadSave ==
    /\ Idle
    /\ LoadFrom({x \in LoadInputs : x.tag \in RefusedLoadTags})

NextLoad ==
    \/ Resume
    \/ HostLoadContent
    \/ HostSubmit
    \/ HostStep
    \/ HostLoadSave

SpecLoad == Init /\ [][NextLoad]_vars

(* C4: a load_save_bytes call that returns an error (short buffer, bad
   magic, bad major version, size mismatch, checksum mismatch, chunk or target
   array out of bounds, a saved target id that is no entity id of the world)
   leaves tick, every entity, the weapon, the action queue, the event log and
   the lifecycle exactly as they were before the call. *)
C4_FailedLoadChangesNothing ==
    [][(Call("ax_load_save_bytes") /\ Failed) => core' = core]_vars

(* the last of the checks fails, on a stepped world with events and a
   queued action *)
C4_Witness ==
    /\ ret.op = "ax_load_save_bytes"
    /\ ret.tag = "unknown_id"
    /\ ret.res = AX_ERR_INVALID_ARG
    /\ core.tick > 0
    /\ core.events # <<>>
    /\ core.action_queue # <<>>

(* ------------------------------------------------------------------ *)
(* Two instances in one process                                         *)
(* The host makes calls on the first instance and writes each down;     *)
(* the second instance is given the same calls, in order, up to MaxLag  *)
(* calls behind the first. Both share g_last_error.                     *)
(* ------------------------------------------------------------------ *)
OkParams == CHOOSE x \in ContentParams : x.tag = "ok"

CallLoadContent ==
    [op |-> "ax_load_content", batch |-> Batch("", TRUE, 0, FALSE, TRUE, <<>>), n |-> 0]
CallSubmit(batch) == [op |-> "ax_submit_actions", batch |-> batch, n |-> 0]
CallStep(n) == [op |-> "ax_step_ticks", batch |-> Batch("", TRUE, 0, FALSE, TRUE, <<>>), n |-> n]

ApplyCall(c, err, call) ==
    CASE call.op = "ax_load_content" -> ax_load_content(c, err, OkParams)
      [] call.op = "ax_submit_actions" -> ax_submit_actions(c, err, call.batch)
      [] call.op = "ax_step_ticks" -> ax_step_ticks(c, err, call.n)

(* a call on the first instance, written down with what it left *)
Scripted(call, max) ==
    /\ Len(twin.script) < max
    /\ \E r \in {ApplyCall(core, g_last_error, call)} :
          /\ core' = r.core
          /\ g_last_error' = r.err
          /\ ret' = [Returned(call.op, call.batch.tag, call.n, r)
                        EXCEPT !.from = core.lifecycle]
          /\ twin' = [twin EXCEPT !.script = Append(@, call),
                                  !.trace = Append(@, Observable(r.core))]

(* the next call of the script, on the second instance *)
TwinNext ==
    /\ twin.pos < Len(twin.script)
    /\ \E r \in {ApplyCall(twin.core, g_last_error, twin.script[twin.pos + 1])} :
          /\ g_last_error' = r.err
          /\ ret' = [Returned(twin.script[twin.pos + 1].op, "twin",
                              twin.script[twin.pos + 1].n, r)
                        EXCEPT !.from = twin.core.lifecycle]
          /\ twin' = [twin EXCEPT !.core = r.core, !.pos = @ + 1]
          /\ UNCHANGED core

Ahead == Len(twin.script) - twin.pos

ReplayBatches(t) ==
    {Batch("actions", FALSE, 1, TRUE, FALSE, as) :
        as \in {<<Fire(t + 1)>>, <<Reload(t + 1)>>, <<Move(t + 1), Look(t + 1)>>,
                <<Fire(t + 1), BadType(t + 1)>>,
                <<Move(t + 1), MoveNaN(t + 1), Fire(t + 1)>>}}

ReplayLoadContent ==
    /\ Ahead < MaxLag
    /\ Scripted(CallLoadContent, MaxScript)

ReplaySubmit ==
    /\ Ahead < MaxLag
    /\ \E batch \in ReplayBatches(core.tick) :
          Scripted(CallSubmit(batch), MaxScript)

ReplayStep ==
    /\ Ahead < MaxLag
    /\ \E n \in 1..MaxStep : Scripted(CallStep(n), MaxScript)

ReplayTwin == TwinNext

NextReplay ==
    \/ ReplayLoadContent
    \/ ReplaySubmit
    \/ ReplayStep
    \/ ReplayTwin

SpecReplay == Init /\ [][NextReplay]_vars

(* C1: two instances given the same sequence of load_content,
   submit_actions and step_ticks calls have, after every call, the same tick,
   the same entities (id, hp, flags, transform), the same weapon state and the
   same ordered event list. *)
C1_ReplayDeterminism ==
    twin.pos > 0 => Observable(twin.core) = twin.trace[twin.pos]

(* the second instance has caught up after a script with a hit *)
C1_Witness ==
    /\ twin.pos = Len(twin.script)
    /\ twin.pos >= 3
    /\ twin.core.lifecycle = AX_LIFECYCLE_RUNNING
    /\ twin.core.events # <<>>
    /\ Observable(twin.core) = Observable(core)

(* ------------------------------------------------------------------ *)
(* Save and continue                                                    *)
(* The host plays a script on the first instance, each tick's actions   *)
(* submitted just before the tick is stepped, and saves it once, at any *)
(* point. It then loads content into the second instance, loads the     *)
(* save into it and gives it the rest of the script, from the first     *)
(* call after the last step_ticks before the save.                      *)
(* ------------------------------------------------------------------ *)
PlayBatches(t) ==
    {Batch("actions", FALSE, 1, TRUE, FALSE, as) :
        as \in {<<Fire(t + 1)>>, <<Fire(t + 1), Reload(t + 1)>>, <<Move(t + 1), Look(t + 1)>>}}

PlaySteps == {1, RELOAD_TICKS - 1}

RECURSIVE ResumeAt(_, _)
ResumeAt(script, k) ==
    IF k = 0 THEN 0
    ELSE IF script[k].op # "ax_submit_actions" THEN k
    ELSE ResumeAt(script, k - 1)

PlayLoadContent ==
    /\ core.lifecycle = AX_LIFECYCLE_CREATED
    /\ Scripted(CallLoadContent, MaxPlay)

PlaySubmit ==
    /\ core.lifecycle >= AX_LIFECYCLE_CONTENT_LOADED
    /\ twin.script[Len(twin.script)].op # "ax_submit_actions"
    /\ \E batch \in PlayBatches(core.tick) : Scripted(CallSubmit(batch), MaxPlay)

PlayStep ==
    /\ core.lifecycle >= AX_LIFECYCLE_CONTENT_LOADED
    /\ \E n \in PlaySteps :
          /\ core.tick + n <= MaxPlayTick
          /\ Scripted(CallStep(n), MaxPlay)

SaveGame ==
    /\ core.lifecycle >= AX_LIFECYCLE_CONTENT_LOADED
    /\ twin.blob = <<>>
    /\ \E args \in {x \in OutArgs(SaveTotal(core)) : x.tag = "exact"} :
          \E r \in {ax_save_bytes(core, g_last_error, args)} :
             /\ core' = r.core
             /\ g_last_error' = r.err
             /\ ret' = [ReturnedOut("ax_save_bytes", args.tag, r)
                           EXCEPT !.from = core.lifecycle]
             /\ twin' = [twin EXCEPT !.blob = r.out, !.saved_at = Len(twin.script)]

TwinLoadContent ==
    /\ twin.blob # <<>>
    /\ twin.core.lifecycle = AX_LIFECYCLE_CREATED
    /\ \E r \in {ax_load_content(twin.core, g_last_error, OkParams)} :
          /\ g_last_error' = r.err
          /\ ret' = [Returned("ax_load_content", "twin", 0, r)
                        EXCEPT !.from = twin.core.lifecycle]
          /\ twin' = [twin EXCEPT !.core = r.core]
          /\ UNCHANGED core

TwinLoadSave ==
    /\ twin.core.lifecycle = AX_LIFECYCLE_CONTENT_LOADED
    /\ ~twin.loaded
    /\ \E g \in GarbageBytes :
          \E r \in {ax_load_save_bytes(twin.core, g_last_error, Blob("saved", twin.blob), g)} :
             /\ g_last_error' = r.err
             /\ ret' = [Returned("ax_load_save_bytes", "saved", 0, r)
                           EXCEPT !.from = twin.core.lifecycle, !.oob = r.oob]
             /\ twin' = [twin EXCEPT !.core = r.core,
                                     !.loaded = (r.res = AX_OK),
                                     !.pos = ResumeAt(twin.script, twin.saved_at)]
             /\ UNCHANGED core

TwinContinue ==
    /\ twin.loaded
    /\ TwinNext

NextSave ==
    \/ PlayLoadContent
    \/ PlaySubmit
    \/ PlayStep
    \/ SaveGame
    \/ TwinLoadContent
    \/ TwinLoadSave
    \/ TwinContinue

SpecSave == Init /\ [][NextSave]_vars

(* the fields the round trip keeps *)
Restored(o) ==
    [tick |-> o.tick, entities |-> o.entities,
     ammo_in_mag |-> o.weapon.ammo_in_mag, ammo_reserve |-> o.weapon.ammo_reserve,
     reloading |-> o.weapon.reloading]

(* C2: from any state reached by submit/step after a content load, the
   blob of save_bytes loaded by load_save_bytes into a freshly created and
   content-loaded instance succeeds and gives a state whose tick, entities
   (id, hp, state_flags, transform) and weapon ammo_in_mag, ammo_reserve and
   RELOADING flag are those of the saved instance at the save. *)
C2_SaveLoadRoundTrip ==
    (ret.op = "ax_load_save_bytes" /\ ret.tag = "saved")
    => /\ ret.res = AX_OK
       /\ ~ret.oob
       /\ Restored(twin.core) = Restored(twin.trace[twin.saved_at])

(* a save taken in the middle of a reload, after a shot, has been loaded *)
C2_Witness ==
    /\ ret.op = "ax_load_save_bytes"
    /\ ret.tag = "saved"
    /\ ret.res = AX_OK
    /\ twin.core.tick > 0
    /\ twin.core.weapon.reloading
    /\ twin.core.weapon.ammo_in_mag < MAGAZINE_SIZE

(* C3: with each tick's actions submitted just before the tick is
   stepped and a save at any tick T, the middle of a reload countdown
   included, the instance that loaded the save and went on with the script
   has after every later step the tick, entities, weapon and events of
   that tick that the uninterrupted instance had. *)
C3_ContinuationEquivalence ==
    (/\ twin.loaded
     /\ twin.pos > ResumeAt(twin.script, twin.saved_at)
     /\ twin.script[twin.pos].op = "ax_step_ticks")
    => Observable(twin.core) = twin.trace[twin.pos]

(* saved in the middle of a reload, the continuation sees RELOAD_DONE *)
C3_Witness ==
    /\ twin.loaded
    /\ twin.trace[twin.saved_at].weapon.reloading
    /\ twin.pos > twin.saved_at
    /\ twin.script[twin.pos].op = "ax_step_ticks"
    /\ \E i \in 1..Len(twin.core.events) : twin.core.events[i].type = AX_EVT_RELOAD_DONE
    /\ Observable(twin.core) = Observable(core)

(* ------------------------------------------------------------------ *)
(* The event log                                                        *)
(* ------------------------------------------------------------------ *)
(* what the rules of one tick append to the event log of c: the actions due
   at the next tick, in queue order, then the timers *)
EmittedNext(c) ==
    LET d == AdvanceTimers(ScanQueue([c EXCEPT !.tick = @ + 1], 1))
    IN SubSeq(d.events, Len(c.events) + 1, Len(d.events))

(* C11: after a step_ticks(n) call with n >= 1 the event log holds exactly
   the events emitted while processing the last of the n ticks, in emission
   order; the events of every earlier tick are gone. *)
C11_EventsOfLastTick ==
    [][(/\ ret'.op = "ax_step_ticks"
        /\ ret'.tag # "twin"
        /\ ret'.res = AX_OK
        /\ ret'.n >= 1)
       => core'.events = EmittedNext(StepLoop(core, ret'.n - 1))]_vars

(* a step of several ticks from a log that held events; the last tick
   emitted other events, and those alone are in the log *)
C11_Witness ==
    /\ ret.op = "ax_step_ticks"
    /\ ret.tag # "twin"
    /\ ret.n > 1
    /\ Len(twin.trace) >= 2
    /\ twin.trace[Len(twin.trace) - 1].events # <<>>
    /\ core.events # <<>>
    /\ \A i \in 1..Len(core.events) :
          \A j \in 1..Len(twin.trace[Len(twin.trace) - 1].events) :
             core.events[i] # twin.trace[Len(twin.trace) - 1].events[j]

(* ------------------------------------------------------------------ *)
(* A host with save blobs that ax_load_save_bytes accepts               *)
(* The host loads and unloads content, submits actions for the next     *)
(* tick and for the tick that is already over, steps, saves, and loads  *)
(* blobs: two that ax_save_bytes wrote and copies of them with fields   *)
(* changed and the checksum put right.                                  *)
(* ------------------------------------------------------------------ *)
AcceptedLoadTags == {"fresh", "combat", "ammo_100", "undead"}

WorldBatches(t) ==
    {Batch("actions", FALSE, 1, TRUE, FALSE, as) :
        as \in {<<Fire(t + 1)>>, <<Reload(t + 1)>>, <<Fire(t)>>}}

WorldSubmit ==
    /\ Idle
    /\ \E batch \in WorldBatches(core.tick) :
          /\ Len(core.action_queue) + Len(batch.actions) <= MaxHeld
          /\ \E r \in {ax_submit_actions(core, g_last_error, batch)} :
                Finish(r, Returned("ax_submit_actions", batch.tag, Len(batch.actions), r))

WorldStep ==
    /\ Idle
    /\ \E n \in 1..MaxStep :
          /\ core.tick + n <= MaxWorldTick
          /\ \E r \in {ax_step_ticks(core, g_last_error, n)} :
                Finish(r, Returned("ax_step_ticks", "ok", n, r))

WorldSave ==
    /\ Idle
    /\ \E args \in {x \in OutArgs(SaveTotal(core)) : x.tag = "exact"} :
          \E r \in {ax_save_bytes(core, g_last_error, args)} :
             Finish(r, [ReturnedOut("ax_save_bytes", args.tag, r) EXCEPT !.out = <<>>])

(* no check lets a read of these blobs go past the end of the buffer *)
WorldLoadSave ==
    /\ Idle
    /\ \E args \in {x \in LoadInputs : x.tag \in AcceptedLoadTags} :
          \E r \in {ax_load_save_bytes(core, g_last_error, args, 0)} :
             Finish(r, [Returned("ax_load_save_bytes", args.tag, 0, r) EXCEPT !.oob = r.oob])

NextWorld ==
    \/ Resume
    \/ HostLoadContent
    \/ UnloadContent
    \/ WorldSubmit
    \/ WorldStep
    \/ WorldSave
    \/ WorldLoadSave

SpecWorld == Init /\ [][NextWorld]_vars

(* C12: after every public operation returns, reloading is true exactly
   when reload_ticks_remaining > 0. *)
C12_ReloadingIffCountdown ==
    core.weapon.reloading <=> (core.weapon.reload_ticks_remaining > 0)

(* a reload started by an action is counting down after a step *)
C12_Witness ==
    /\ ret.op = "ax_step_ticks"
    /\ core.weapon.reloading
    /\ core.weapon.reload_ticks_remaining = RELOAD_TICKS - 1

(* C13: in every reachable state, after any sequence of load_content,
   submit, step, save and successful load_save_bytes calls (with any blob
   that load accepts), 0 <= ammo_in_mag <= 12 and ammo_reserve >= 0. *)
C13_Stated ==
    /\ 0 <= core.weapon.ammo_in_mag
    /\ core.weapon.ammo_in_mag <= MAGAZINE_SIZE
    /\ core.weapon.ammo_reserve >= 0

(* what tells the entities of an instance apart: id, PLAYER and TARGET flag
   of each, in storage order *)
Identities(c) ==
    [i \in 1..Len(c.entities) |->
        <<c.entities[i].id,
          HasFlag(c.entities[i].state_flags, AX_ENT_FLAG_PLAYER),
          HasFlag(c.entities[i].state_flags, AX_ENT_FLAG_TARGET)>>]

Loaded(c) == c.lifecycle >= AX_LIFECYCLE_CONTENT_LOADED

(* C14: in every reachable state with lifecycle ContentLoaded or Running
   exactly one entity carries the PLAYER flag and entity ids are pairwise
   distinct, and no operation between two such states adds, removes or
   reorders entities or changes an entity's id or its PLAYER/TARGET flags. *)
C14_EntitiesFixed ==
    /\ [](Loaded(core) =>
            /\ Cardinality({i \in 1..Len(core.entities) :
                    HasFlag(core.entities[i].state_flags, AX_ENT_FLAG_PLAYER)}) = 1
            /\ \A i, j \in 1..Len(core.entities) :
                  core.entities[i].id = core.entities[j].id => i = j)
    /\ [][(Loaded(core) /\ Loaded(core')) => Identities(core') = Identities(core)]_vars

(* a save with a destroyed target has been loaded into a world that was
   stepped *)
C14_Witness ==
    /\ ret.op = "ax_load_save_bytes"
    /\ ret.res = AX_OK
    /\ ret.from = AX_LIFECYCLE_RUNNING
    /\ \E i \in 1..Len(core.entities) :
          HasFlag(core.entities[i].state_flags, AX_ENT_FLAG_DEAD)

Dead(e) == HasFlag(e.state_flags, AX_ENT_FLAG_DEAD)

(* every entity that is DEAD before the step is there and DEAD after it *)
DeadStay ==
    \A i \in 1..Len(core.entities) :
       Dead(core.entities[i]) => (i <= Len(core'.entities) /\ Dead(core'.entities[i]))

(* C15: once an entity's DEAD flag is set, it stays set in every later
   state until unload_content, whatever submit, step, save and
   load_save_bytes calls follow. *)
C15_Stated ==
    [][ret'.op # "ax_unload_content" => DeadStay]_vars

(* C15 as amended: the DEAD flag stays set until unload_content or a
   successful load_save_bytes, whatever submit, step and save calls and
   refused loads follow. *)
C15_DeadSticky ==
    [][(/\ ret'.op # "ax_unload_content"
        /\ ~(ret'.op = "ax_load_save_bytes" /\ ret'.res = AX_OK))
       => DeadStay]_vars

(* a world with a destroyed target has been stepped and the shot of that
   tick has left an event *)
C15_Witness ==
    /\ ret.op = "ax_step_ticks"
    /\ ret.res = AX_OK
    /\ core.events # <<>>
    /\ \E i \in 1..Len(core.entities) : Dead(core.entities[i])

(* C16: in every reachable state, every TARGET entity has the DEAD flag
   set if and only if its hp <= 0. *)
C16_Stated ==
    \A i \in 1..Len(core.entities) :
       HasFlag(core.entities[i].state_flags, AX_ENT_FLAG_TARGET)
       => (Dead(core.entities[i]) <=> core.entities[i].hp <= 0)

(* ------------------------------------------------------------------ *)
(* Copy-out calls, checked under Spec                                   *)
(* ------------------------------------------------------------------ *)
(* the size a snapshot of c needs: the header, the entities, the weapon
   block of the player, the events *)
RequiredSnapshot(c) ==
    SIZEOF_SNAPSHOT_HEADER
    + Len(c.entities) * SIZEOF_SNAPSHOT_ENTITY
    + (IF \E i \in 1..Len(c.entities) :
             HasFlag(c.entities[i].state_flags, AX_ENT_FLAG_PLAYER)
       THEN SIZEOF_SNAPSHOT_WEAPON ELSE 0)
    + Len(c.events) * SIZEOF_SNAPSHOT_EVENT

(* the size a save of c needs: the header, the world chunk, one record for
   each target *)
RequiredSave(c) ==
    SIZEOF_SAVE_HEADER + SIZEOF_SAVE_WORLD
    + SIZEOF_SAVE_TARGET
      * Cardinality({i \in 1..Len(c.entities) :
                       HasFlag(c.entities[i].state_flags, AX_ENT_FLAG_TARGET)})

(* the query/copy-out contract of a call that returned, R being the size
   required *)
CopyOutContract(R) ==
    /\ ret.tag = "query" => (ret.res = AX_OK /\ ret.out_size = R)
    /\ ret.tag \in {"exact", "roomy"} =>
          (ret.res = AX_OK /\ ret.out_size = R /\ Len(ret.out) = R)
    /\ ret.tag = "small" => (ret.res = AX_ERR_BUFFER_TOO_SMALL /\ ret.out_size = R)

(* C17: with content loaded, a size query (null buffer) of
   get_snapshot_bytes returns success and reports R = header +
   entity_count * entity_stride + weapon block + event_count * event_stride; a
   call with a buffer of capacity >= R succeeds and reports R; a call with a
   non-null buffer of capacity < R returns BufferTooSmall and still reports R.
   save_bytes follows the same contract with its own R. *)
C17_SizeContract ==
    Loaded(core) =>
       /\ ret.op = "ax_get_snapshot_bytes" => CopyOutContract(RequiredSnapshot(core))
       /\ ret.op = "ax_save_bytes" => CopyOutContract(RequiredSave(core))

(* a buffer one byte short for a snapshot with events *)
C17_Witness ==
    /\ ret.op = "ax_get_snapshot_bytes"
    /\ ret.tag = "small"
    /\ ret.res = AX_ERR_BUFFER_TOO_SMALL
    /\ core.events # <<>>
    /\ ret.out_size = RequiredSnapshot(core)

(* what a reader of a snapshot blob finds in it, going by the counts and
   strides of its header *)
SnapshotRead(out) ==
    LET entity_count == U32Int(RdU32(out, 16, 0))
        entity_stride == U32Int(RdU32(out, 20, 0))
        event_count == U32Int(RdU32(out, 24, 0))
        event_stride == U32Int(RdU32(out, 28, 0))
        present == U32Int(RdU32(out, 36, 0))
        wpn == SIZEOF_SNAPSHOT_HEADER + entity_count * entity_stride
        evs == wpn + present * SIZEOF_SNAPSHOT_WEAPON
    IN [tick |-> RdU64(out, 8, 0),
        entities |-> [i \in 1..entity_count |->
            LET off == SIZEOF_SNAPSHOT_HEADER + (i - 1) * entity_stride
            IN [id |-> U32Int(RdU32(out, off, 0)),
                hp |-> RdI32(out, off + 36, 0),
                state_flags |-> U32Int(RdU32(out, off + 40, 0))]],
        ammo_in_mag |-> RdI32(out, wpn + 8, 0),
        ammo_reserve |-> RdI32(out, wpn + 12, 0),
        reloading |-> HasFlag(U32Int(RdU32(out, wpn + 16, 0)), AX_WPN_FLAG_RELOADING),
        events |-> [i \in 1..event_count |->
            LET off == evs + (i - 1) * event_stride
            IN Event(U32Int(RdU32(out, off, 0)), U32Int(RdU32(out, off + 4, 0)),
                     U32Int(RdU32(out, off + 8, 0)), RdI32(out, off + 12, 0))]]

(* the same of the instance itself *)
SnapshotOf(c) ==
    [tick |-> c.tick,
     entities |-> [i \in 1..Len(c.entities) |->
         [id |-> c.entities[i].id, hp |-> c.entities[i].hp,
          state_flags |-> c.entities[i].state_flags]],
     ammo_in_mag |-> c.weapon.ammo_in_mag,
     ammo_reserve |-> c.weapon.ammo_reserve,
     reloading |-> c.weapon.reloading,
     events |-> c.events]

(* C18: get_snapshot_bytes and save_bytes, whatever they return, leave
   tick, entities, weapon, action queue, event log and lifecycle unchanged, and
   a successful snapshot reports the current tick, every entity in storage
   order with its current hp and flags, the current weapon ammo and RELOADING
   flag, and the current event log in order. *)
C18_ReadOnlyCopyOut ==
    /\ [][(Call("ax_get_snapshot_bytes") \/ Call("ax_save_bytes")) => core' = core]_vars
    /\ []((/\ ret.op = "ax_get_snapshot_bytes"
            /\ ret.res = AX_OK
            /\ ret.tag \in {"exact", "roomy"})
           => SnapshotRead(ret.out) = SnapshotOf(core))

(* a snapshot of a running world after a hit, with an action still queued *)
C18_Witness ==
    /\ ret.op = "ax_get_snapshot_bytes"
    /\ ret.res = AX_OK
    /\ ret.tag = "exact"
    /\ core.tick > 0
    /\ core.action_queue # <<>>
    /\ \E i \in 1..Len(core.events) : core.events[i].type = AX_EVT_DAMAGE_DEALT
    /\ SnapshotRead(ret.out).entities[2].hp = TARGET_HP - DAMAGE

(* ------------------------------------------------------------------ *)
(* Batch intake, checked under SpecReplay                               *)
(* ------------------------------------------------------------------ *)
(* an action submit_actions refuses: an unknown type, or a MOVE or LOOK
   whose payload is not finite *)
Refused(a) ==
    \/ a.type \notin AX_ACT_MOVE_INTENT..AX_ACT_CROUCH_TOGGLE
    \/ /\ a.type \in {AX_ACT_MOVE_INTENT, AX_ACT_LOOK_INTENT}
       /\ (a.u0 \in {F_NAN, F_INF} \/ a.u1 \in {F_NAN, F_INF})

(* the index of the first refused action of a batch, counted from 1; 0 when
   there is none *)
FirstRefused(actions) ==
    LET S == {i \in 1..Len(actions) : Refused(actions[i])}
    IN IF S = {} THEN 0 ELSE CHOOSE i \in S : \A j \in S : i <= j

(* the batch of the call the first instance has just been given *)
LastBatch == twin'.script[Len(twin'.script)].batch

(* C19: when submit_actions is given a batch whose first invalid action
   is at index k, the call returns InvalidArg and the action queue afterwards
   is the old queue followed by actions 0..k-1 of the batch in order; actions
   at index k and later are not enqueued. *)
C19_PartialIntake ==
    [][(/\ ret'.op = "ax_submit_actions"
        /\ ret'.tag = "actions"
        /\ Loaded(core)
        /\ FirstRefused(LastBatch.actions) # 0)
       => /\ ret'.res = AX_ERR_INVALID_ARG
          /\ core' = [core EXCEPT !.action_queue =
                         @ \o SubSeq(LastBatch.actions, 1,
                                     FirstRefused(LastBatch.actions) - 1)]]_vars

(* a batch of three with a non-finite MOVE in the middle, on a queue that
   held an action: the first of the three is queued behind it, the third is
   not *)
C19_Witness ==
    /\ ret.op = "ax_submit_actions"
    /\ ret.tag = "actions"
    /\ ret.res = AX_ERR_INVALID_ARG
    /\ Len(twin.script[Len(twin.script)].batch.actions) = 3
    /\ Len(core.action_queue) = 2
    /\ core.action_queue[2] = twin.script[Len(twin.script)].batch.actions[1]

(* ------------------------------------------------------------------ *)
(* Actions for ticks that are over, checked under SpecWorld             *)
(* ------------------------------------------------------------------ *)
(* the actions of q whose tick is at most t, in queue order *)
UpTo(q, t) == SelectSeq(q, LAMBDA a : a.tick <= t)

IsPrefix(s, t) == Len(s) <= Len(t) /\ SubSeq(t, 1, Len(s)) = s

ClearsQueue ==
    \/ ret'.op = "ax_unload_content"
    \/ ret'.op = "ax_load_save_bytes" /\ ret'.res = AX_OK

(* C20: submit_actions accepts an action whatever its tick is relative to
   the current tick; an accepted action whose tick is less than or equal to the
   current tick at submission is never applied by any later step and stays in
   the action queue until unload_content or a successful load_save_bytes
   clears the queue. *)
C20_StaleActionsStay ==
    /\ [][(Call("ax_submit_actions") /\ Loaded(core))
          => /\ ret'.res = AX_OK
             /\ Len(core'.action_queue) = Len(core.action_queue) + ret'.n
             /\ IsPrefix(core.action_queue, core'.action_queue)]_vars
    /\ [][~ClearsQueue
          => IsPrefix(UpTo(core.action_queue, core.tick),
                      UpTo(core'.action_queue, core.tick))]_vars
    /\ [][(Call("ax_step_ticks") /\ ret'.res = AX_OK)
          => /\ UpTo(core'.action_queue, core.tick) = UpTo(core.action_queue, core.tick)
             /\ Observable(core') =
                   Observable(StepLoop(
                       [core EXCEPT !.action_queue =
                           SelectSeq(@, LAMBDA a : a.tick > core.tick)], ret'.n))]_vars

(* a step has applied the action that was due and left the one that was
   submitted for a tick already over *)
C20_Witness ==
    /\ ret.op = "ax_step_ticks"
    /\ ret.res = AX_OK
    /\ core.events # <<>>
    /\ Len(core.action_queue) = 1
    /\ core.action_queue[1].tick < core.tick - ret.n

(* ------------------------------------------------------------------ *)
(* The last-error message                                               *)
(* ------------------------------------------------------------------ *)

(* C21 as stated: the last-error message is overwritten by every call: after
   a call that returned success it is the empty string, and after a call that
   returned an error it is a non-empty message. *)
C21_Stated ==
    (~Idle /\ ret.res # NO_RETURN) => (ret.res = AX_OK <=> g_last_error = "")

(* an instance that alone is given the first k calls of the script, in a
   process where no other call is made *)
RECURSIVE Alone(_, _)
Alone(script, k) ==
    IF k = 0 THEN [core |-> NewCore, err |-> "", res |-> AX_OK]
    ELSE LET p == Alone(script, k - 1)
             r == ApplyCall(p.core, p.err, script[k])
         IN  [core |-> r.core, err |-> r.err, res |-> r.res]

(* C22: with two instances used in any interleaving, the simulation state
   of each (tick, entities, weapon, action queue, event log, lifecycle) is the
   one its own calls alone give it, whatever calls were made on the other in
   between; the last-error message is one value for both: a call on the second
   instance leaves the first untouched, and clears the message when it is a
   successful load_content or step_ticks of at least one tick, or sets its own
   message when it fails, whatever the first instance's last call left. *)
C22_InstancesShareOnlyTheMessage ==
    /\ [](/\ core = Alone(twin.script, Len(twin.script)).core
          /\ twin.core = Alone(twin.script, twin.pos).core)
    /\ [][ret'.tag = "twin"
          => /\ core' = core
             /\ (ret'.res # AX_OK => g_last_error' # "")
             /\ ((ret'.res = AX_OK /\ (ret'.op = "ax_load_content" \/ ret'.n > 0))
                 => g_last_error' = "")]_vars

(* the last call on the first instance failed, and a later call on the second
   has cleared the message that call had set *)
C22_Witness ==
    /\ ret.tag = "twin"
    /\ Alone(twin.script, Len(twin.script)).res = AX_ERR_INVALID_ARG
    /\ Alone(twin.script, Len(twin.script)).err # ""
    /\ core.action_queue # <<>>
    /\ g_last_error = ""

(* ------------------------------------------------------------------ *)
(* The rules of a tick                                                  *)
(* ------------------------------------------------------------------ *)

(* the actions of q that are for tick t, in the order of q *)
Due(q, t) == SelectSeq(q, LAMBDA a : a.tick = t)

(* the actions as, applied one after the other *)
RECURSIVE ApplyAll(_, _)
ApplyAll(c, as) ==
    IF as = <<>> THEN c ELSE ApplyAll(ApplyAction(c, Head(as)), Tail(as))

(* tick c.tick + 1 as the claim describes it: the due actions applied once
   each in queue order and taken out, the others left as they are, then the
   timers *)
TickOf(c) ==
    LET t == c.tick + 1
        d == ApplyAll([c EXCEPT !.tick = t, !.events = <<>>], Due(c.action_queue, t))
    IN  AdvanceTimers([d EXCEPT !.action_queue =
                          SelectSeq(c.action_queue, LAMBDA a : a.tick # t)])

RECURSIVE Ticks(_, _)
Ticks(c, n) == IF n = 0 THEN c ELSE Ticks(TickOf(c), n - 1)

(* C23: when step processes tick T, every queued action with tick = T is
   applied exactly once, in the order the actions were enqueued, and removed;
   after that tick the queue holds no action with tick = T, and the actions
   with other ticks remain in their original relative order. *)
C23_DueActionsInQueueOrder ==
    [][(Call("ax_step_ticks") /\ ret'.res = AX_OK /\ ret'.n > 0)
       => /\ World(core') = World(Ticks(core, ret'.n))
          /\ \A k \in 1..Len(core'.action_queue) :
                ~(core'.action_queue[k].tick \in (core.tick + 1)..core'.tick)]_vars

(* a tick has applied a RELOAD and then a FIRE_ONCE, enqueued in that order
   by two submit calls *)
C23_Witness ==
    /\ ret.op = "ax_step_ticks"
    /\ ret.n = 1
    /\ Len(core.events) = 2
    /\ core.events[1].type = AX_EVT_RELOAD_STARTED
    /\ core.events[2].type = AX_EVT_FIRE_BLOCKED
    /\ core.action_queue = <<>>

(* ------------------------------------------------------------------ *)
(* One tick, action by action                                           *)
(* ax_step_ticks(core, 1) taken one loop iteration at a time: the call  *)
(* is entered, the queue is scanned one element per step, and the pass  *)
(* ends with the timers and the return. While the call is inside,       *)
(* ret.res is NO_RETURN, twin.core is the instance as the call found it *)
(* and twin.pos is the loop index i (from 1). The host takes over an    *)
(* instance somewhere in a game, at tick twin.saved_at, submits at most *)
(* one batch for the next tick and steps it.                            *)
(* ------------------------------------------------------------------ *)
MaxRuleTicks == 5

Shots(t, k) == [j \in 1..k |-> Fire(t)]

(* n ticks stepped in several calls of at most MaxRuleTicks ticks *)
RECURSIVE StepCalls(_, _)
StepCalls(c, n) ==
    IF n <= MaxRuleTicks THEN StepLoop(c, n)
    ELSE CHOOSE r \in {StepCalls(d, n - n \div 2) : d \in {StepCalls(c, n \div 2)}} : TRUE

(* the instance after the host has submitted q at tick 0 and stepped n ticks *)
Played(q, n) == EnterRunning(StepCalls([LoadedCore EXCEPT !.action_queue = q], n))

(* content just loaded; the first target destroyed; magazine emptied; a reload of an empty magazine one
   tick before it ends; every target destroyed; a reload one tick before it
   ends with less in reserve than the magazine lacks *)
RuleWorlds ==
    {LoadedCore,
     Played(Shots(1, 5), 1),
     Played(Shots(1, 12), 1),
     Played(Shots(1, 12) \o <<Reload(1)>>, 29),
     Played(Shots(1, 12) \o <<Reload(1)>> \o Shots(31, 3), 31),
     Played(Shots(1, 3) \o <<Reload(1)>> \o Shots(31, 12) \o <<Reload(31)>>
            \o Shots(61, 12) \o <<Reload(61)>> \o Shots(91, 12) \o <<Reload(91)>>
            \o Shots(121, 12) \o <<Reload(121)>>, 149)}

InitRules ==
    /\ core \in RuleWorlds
    /\ g_last_error = ""
    /\ ret = IdleRet
    /\ twin = [TwinInit EXCEPT !.core = core, !.saved_at = core.tick]

RuleBatches(t) ==
    {Batch("actions", FALSE, 1, TRUE, FALSE, as) :
        as \in {<<Fire(t + 1)>>, <<Reload(t + 1)>>,
                <<Reload(t + 1), Fire(t + 1)>>, <<Fire(t + 1), Reload(t + 1)>>}}

RulesSubmit ==
    /\ Idle
    /\ core.action_queue = <<>>
    /\ \E batch \in RuleBatches(core.tick) :
          \E r \in {ax_submit_actions(core, g_last_error, batch)} :
             Finish(r, Returned("ax_submit_actions", batch.tag, Len(batch.actions), r))

(* entry of ax_step_ticks(core, 1) up to the start of the scan *)
StepEnter ==
    /\ Idle
    /\ core.lifecycle >= AX_LIFECYCLE_CONTENT_LOADED
    /\ core.tick < twin.saved_at + MaxRuleTicks
    /\ core' = [core EXCEPT !.tick = @ + 1, !.events = <<>>]
    /\ ret' = [Returned("ax_step_ticks", "scan", 1, [res |-> NO_RETURN])
                  EXCEPT !.from = core.lifecycle]
    /\ twin' = [twin EXCEPT !.core = core, !.pos = 1]
    /\ UNCHANGED g_last_error

InScan == ret.op = "ax_step_ticks" /\ ret.res = NO_RETURN

(* one iteration of for (i = 0; i < action_queue.size(); ) *)
ScanOne ==
    /\ InScan
    /\ twin.pos <= Len(core.action_queue)
    /\ IF core.action_queue[twin.pos].tick # core.tick
       THEN /\ twin' = [twin EXCEPT !.pos = @ + 1]
            /\ UNCHANGED core
       ELSE /\ core' = [ApplyAction(core, core.action_queue[twin.pos])
                           EXCEPT !.action_queue = RemoveAt(@, twin.pos)]
            /\ UNCHANGED twin
    /\ UNCHANGED <<g_last_error, ret>>

(* the scan is over: timers, end of the only pass, and the return *)
PassEnd ==
    /\ InScan
    /\ twin.pos > Len(core.action_queue)
    /\ core' = EnterRunning(AdvanceTimers(core))
    /\ g_last_error' = ""
    /\ ret' = [ret EXCEPT !.tag = "ok", !.res = AX_OK]
    /\ UNCHANGED twin

NextRules ==
    \/ Resume
    \/ RulesSubmit
    \/ StepEnter
    \/ ScanOne
    \/ PassEnd

SpecRules == InitRules /\ [][NextRules]_vars

(* the call taken action by action returns what ax_step_ticks gives at once *)
RulesAgree ==
    (ret.op = "ax_step_ticks" /\ ret.res = AX_OK)
    => core = ax_step_ticks(twin.core, "", 1).core

(* the action the scan is at, and whether it is a due action of the type *)
Current == core.action_queue[twin.pos]

Applies(type) ==
    /\ InScan
    /\ twin.pos <= Len(core.action_queue)
    /\ Current.tick = core.tick
    /\ Current.type = type

(* hp and flags of every entity *)
Vitals(c) == [i \in 1..Len(c.entities) |-> <<c.entities[i].hp, c.entities[i].state_flags>>]

Living(c) ==
    {i \in 1..Len(c.entities) :
        /\ HasFlag(c.entities[i].state_flags, AX_ENT_FLAG_TARGET)
        /\ ~HasFlag(c.entities[i].state_flags, AX_ENT_FLAG_DEAD)}

CanFire(c) == ~c.weapon.reloading /\ c.weapon.ammo_in_mag > 0

(* C24: a due FIRE_ONCE that finds the weapon reloading emits exactly one
   event FIRE_BLOCKED(actor, slot, RELOADING), also when the magazine is
   empty; one that finds the weapon not reloading with ammo_in_mag <= 0 emits
   exactly one event FIRE_BLOCKED(actor, slot, EMPTY_MAG); in both cases
   ammo_in_mag, ammo_reserve and every entity's hp and flags are unchanged by
   the action. *)
C24_BlockedFire ==
    [][(Applies(AX_ACT_FIRE_ONCE) /\ ~CanFire(core))
       => /\ core'.events =
                Append(core.events,
                       Event(AX_EVT_FIRE_BLOCKED, Current.actor_id, Current.u0,
                             IF core.weapon.reloading THEN AX_FIRE_BLOCKED_RELOADING
                             ELSE AX_FIRE_BLOCKED_EMPTY_MAG))
          /\ core'.weapon.ammo_in_mag = core.weapon.ammo_in_mag
          /\ core'.weapon.ammo_reserve = core.weapon.ammo_reserve
          /\ Vitals(core') = Vitals(core)]_vars

(* a FIRE_ONCE has been blocked during the reload of an empty magazine *)
C24_Witness ==
    /\ InScan
    /\ core.weapon.reloading
    /\ core.weapon.ammo_in_mag = 0
    /\ core.action_queue = <<>>
    /\ core.events = <<Event(AX_EVT_FIRE_BLOCKED, PLAYER_ID, 0, AX_FIRE_BLOCKED_RELOADING)>>

(* C25: a due FIRE_ONCE with the weapon not reloading and ammo_in_mag > 0
   decrements ammo_in_mag by 1, subtracts 10 from the hp of the first entity in
   storage order that is TARGET and not DEAD and of no other entity, emits
   DAMAGE_DEALT(actor, target_id, 10), and if that hp is then <= 0 sets DEAD and
   emits TARGET_DESTROY(actor, target_id, 0) immediately after; so from a fresh
   content load, five fires on five ticks give total damage 50, target 100
   dead, targets 101 and 102 at hp 50, and ammo_in_mag 7. *)
C25_FireHitsFirstLivingTarget ==
    /\ [][(Applies(AX_ACT_FIRE_ONCE) /\ CanFire(core) /\ Living(core) # {})
          => \E i \in Living(core) :
                LET e == core.entities[i]
                    dmg == Event(AX_EVT_DAMAGE_DEALT, Current.actor_id, e.id, 10)
                    dest == Event(AX_EVT_TARGET_DESTROY, Current.actor_id, e.id, 0)
                IN  /\ \A j \in Living(core) : i <= j
                    /\ core'.weapon = [core.weapon EXCEPT !.ammo_in_mag = @ - 1]
                    /\ core'.entities =
                          [core.entities EXCEPT ![i] =
                              [e EXCEPT !.hp = @ - 10,
                                        !.state_flags =
                                            IF e.hp - 10 <= 0
                                            THEN SetFlag(@, AX_ENT_FLAG_DEAD) ELSE @]]
                    /\ core'.events =
                          core.events \o (IF e.hp - 10 <= 0 THEN <<dmg, dest>> ELSE <<dmg>>)]_vars
    /\ []((twin.saved_at = 0 /\ core.weapon.ammo_in_mag = START_AMMO_IN_MAG - 5)
          => /\ core.tick >= 5
             /\ Vitals(core) =
                   << <<-1, AX_ENT_FLAG_PLAYER>>,
                      <<0, SetFlag(AX_ENT_FLAG_TARGET, AX_ENT_FLAG_DEAD)>>,
                      <<50, AX_ENT_FLAG_TARGET>>, <<50, AX_ENT_FLAG_TARGET>> >>
             /\ core.entities[2].id = FIRST_TARGET_ID)

(* the fifth fire in five ticks after a fresh content load has destroyed
   target 100 *)
C25_Witness ==
    /\ twin.saved_at = 0
    /\ core.tick = 5
    /\ ret.op = "ax_step_ticks"
    /\ ret.res = AX_OK
    /\ core.weapon.ammo_in_mag = 7
    /\ core.events = <<Event(AX_EVT_DAMAGE_DEALT, PLAYER_ID, FIRST_TARGET_ID, 10),
                       Event(AX_EVT_TARGET_DESTROY, PLAYER_ID, FIRST_TARGET_ID, 0)>>

(* C26: a due FIRE_ONCE with the weapon not reloading and ammo_in_mag > 0,
   processed when every TARGET entity is DEAD, still decrements ammo_in_mag by
   1 and emits no event and changes no entity. *)
C26_FireWithoutTarget ==
    [][(Applies(AX_ACT_FIRE_ONCE) /\ CanFire(core) /\ Living(core) = {})
       => /\ core'.weapon = [core.weapon EXCEPT !.ammo_in_mag = @ - 1]
          /\ core'.events = core.events
          /\ core'.entities = core.entities]_vars

(* a shot has been fired with every target destroyed *)
C26_Witness ==
    /\ InScan
    /\ Living(core) = {}
    /\ twin.core.action_queue = <<Fire(core.tick)>>
    /\ core.action_queue = <<>>
    /\ core.weapon.ammo_in_mag = twin.core.weapon.ammo_in_mag - 1
    /\ core.events = <<>>

(* C27: a due RELOAD starts a reload (reloading = true,
   reload_ticks_remaining = 30, one RELOAD_STARTED(actor, slot, 0) event)
   exactly when the weapon is not reloading, ammo_in_mag < 12 and
   ammo_reserve > 0; in every other case it emits no event and changes nothing,
   so a RELOAD processed during a running reload does not restart or shorten
   the countdown. *)
C27_ReloadStart ==
    [][Applies(AX_ACT_RELOAD)
       => LET rest == [core EXCEPT !.action_queue = RemoveAt(@, twin.pos)]
          IN  IF /\ ~core.weapon.reloading
                 /\ core.weapon.ammo_in_mag < 12
                 /\ core.weapon.ammo_reserve > 0
              THEN core' = [rest EXCEPT
                               !.weapon.reloading = TRUE,
                               !.weapon.reload_ticks_remaining = 30,
                               !.events = Append(@, Event(AX_EVT_RELOAD_STARTED,
                                                          Current.actor_id, Current.u0, 0))]
              ELSE core' = rest]_vars

(* a RELOAD has been processed during a running reload and has left the
   countdown where it was *)
C27_Witness ==
    /\ InScan
    /\ twin.core.action_queue = <<Reload(core.tick)>>
    /\ core.action_queue = <<>>
    /\ core.weapon.reloading
    /\ core.weapon.reload_ticks_remaining < RELOAD_TICKS
    /\ core.weapon = twin.core.weapon
    /\ core.events = <<>>

(* C28: on the tick where the reload countdown reaches 0, with
   to_load = min(12 - ammo_in_mag, ammo_reserve): ammo_in_mag grows by to_load,
   ammo_reserve shrinks by to_load, reloading is cleared, and exactly one
   RELOAD_DONE(player_id, weapon_slot, to_load) is emitted as the last event of
   that tick; afterwards ammo_in_mag = 12 or ammo_reserve = 0. *)
C28_ReloadCompletion ==
    [][(/\ InScan
        /\ twin.pos > Len(core.action_queue)
        /\ core.weapon.reloading
        /\ core.weapon.reload_ticks_remaining = 1)
       => LET w == core.weapon
              to_load == CHOOSE m \in {12 - w.ammo_in_mag, w.ammo_reserve} :
                            m <= 12 - w.ammo_in_mag /\ m <= w.ammo_reserve
              done == Event(AX_EVT_RELOAD_DONE, w.player_id, w.weapon_slot, to_load)
          IN  /\ ret'.res = AX_OK
              /\ core'.weapon.ammo_in_mag = w.ammo_in_mag + to_load
              /\ core'.weapon.ammo_reserve = w.ammo_reserve - to_load
              /\ ~core'.weapon.reloading
              /\ core'.events = Append(core.events, done)
              /\ Cardinality({k \in 1..Len(core'.events) :
                                 core'.events[k].type = AX_EVT_RELOAD_DONE}) = 1
              /\ (core'.weapon.ammo_in_mag = 12 \/ core'.weapon.ammo_reserve = 0)]_vars

(* a reload has ended with the reserve short of a full magazine, on a tick
   that also blocked a FIRE_ONCE *)
C28_Witness ==
    /\ ret.op = "ax_step_ticks"
    /\ ret.res = AX_OK
    /\ Len(core.events) = 2
    /\ core.events[1].type = AX_EVT_FIRE_BLOCKED
    /\ core.events[2].type = AX_EVT_RELOAD_DONE
    /\ core.events[2].value = 9
    /\ core.weapon.ammo_in_mag = 9
    /\ core.weapon.ammo_reserve = 0

(* the RELOAD actions of q that are for tick t *)
DueReloads(q, t) == SelectSeq(q, LAMBDA a : a.tick = t /\ a.type = AX_ACT_RELOAD)

FireBlockedReloading ==
    /\ core'.events =
          Append(core.events, Event(AX_EVT_FIRE_BLOCKED, Current.actor_id, Current.u0,
                                    AX_FIRE_BLOCKED_RELOADING))
    /\ core'.weapon.ammo_in_mag = core.weapon.ammo_in_mag

(* C30 as stated: whenever a RELOAD action and a FIRE_ONCE action are due on
   the same tick, the FIRE_ONCE is blocked: it emits FIRE_BLOCKED with reason
   RELOADING and does not decrement ammo_in_mag. *)
C30_Stated ==
    [][(Applies(AX_ACT_FIRE_ONCE) /\ DueReloads(twin.core.action_queue, core.tick) # <<>>)
       => FireBlockedReloading]_vars

(* C30: whenever a RELOAD action and a FIRE_ONCE action are due on the same
   tick, the RELOAD was enqueued before the FIRE_ONCE, and the RELOAD starts a
   reload or finds one running, the FIRE_ONCE is blocked: it emits FIRE_BLOCKED
   with reason RELOADING and does not decrement ammo_in_mag. *)
C30_FireAfterReloadBlocked ==
    [][(/\ Applies(AX_ACT_FIRE_ONCE)
        /\ Len(DueReloads(core.action_queue, core.tick))
              < Len(DueReloads(twin.core.action_queue, core.tick))
        /\ \/ twin.core.weapon.reloading
           \/ \E k \in 1..Len(core.events) : core.events[k].type = AX_EVT_RELOAD_STARTED)
       => FireBlockedReloading]_vars

(* a RELOAD has started a reload and the FIRE_ONCE enqueued after it for the
   same tick has been blocked *)
C30_Witness ==
    /\ InScan
    /\ core.action_queue = <<>>
    /\ core.weapon.reload_ticks_remaining = RELOAD_TICKS
    /\ core.weapon.ammo_in_mag > 0
    /\ core.events = <<Event(AX_EVT_RELOAD_STARTED, PLAYER_ID, 0, 0),
                       Event(AX_EVT_FIRE_BLOCKED, PLAYER_ID, 0, AX_FIRE_BLOCKED_RELOADING)>>

(* ------------------------------------------------------------------ *)
(* Reload timing                                                        *)
(* After a content load the host submits at most one batch for the next *)
(* tick and steps one tick at a time, reading the event log after each  *)
(* step; twin.saved_at is the tick of the last RELOAD_STARTED it has    *)
(* seen, 0 when it has seen none.                                       *)
(* ------------------------------------------------------------------ *)
MaxTimingTick == 32

InitTiming ==
    /\ core = LoadedCore
    /\ g_last_error = ""
    /\ ret = Returned("ax_load_content", "ok", 0, [res |-> AX_OK])
    /\ twin = TwinInit

Emitted(c, type) == \E k \in 1..Len(c.events) : c.events[k].type = type

TimingStep ==
    /\ Idle
    /\ core.tick < MaxTimingTick
    /\ \E r \in {ax_step_ticks(core, g_last_error, 1)} :
          /\ core' = r.core
          /\ g_last_error' = r.err
          /\ ret' = [Returned("ax_step_ticks", "ok", 1, r) EXCEPT !.from = core.lifecycle]
          /\ twin' = IF Emitted(r.core, AX_EVT_RELOAD_STARTED)
                     THEN [twin EXCEPT !.saved_at = r.core.tick]
                     ELSE twin

NextTiming ==
    \/ Resume
    \/ RulesSubmit
    \/ TimingStep

SpecTiming == InitTiming /\ [][NextTiming]_vars

(* the FIRE_ONCE actions of q that are for tick t *)
DueFires(q, t) == SelectSeq(q, LAMBDA a : a.tick = t /\ a.type = AX_ACT_FIRE_ONCE)

(* the events of c of the type *)
EventsOf(c, type) == SelectSeq(c.events, LAMBDA e : e.type = type)

(* C29: the timer is advanced once per tick after that tick's actions,
   including on the tick the reload starts, so when RELOAD_STARTED is emitted
   on tick t and no load or unload intervenes, RELOAD_DONE is emitted on tick
   t+29 and on no earlier tick; every FIRE_ONCE due on ticks t+1 through t+29
   is blocked with reason RELOADING, and t+30 is the first tick on which a
   FIRE_ONCE can succeed. *)
C29_ReloadTiming ==
    /\ []((twin.saved_at > 0 /\ core.tick <= twin.saved_at + 29)
          => /\ Emitted(core, AX_EVT_RELOAD_DONE) <=> core.tick = twin.saved_at + 29
             /\ core.weapon.reloading <=> core.tick < twin.saved_at + 29
             /\ core.weapon.reloading
                   => core.weapon.reload_ticks_remaining = twin.saved_at + 29 - core.tick)
    /\ [][(/\ Call("ax_step_ticks")
           /\ twin.saved_at > 0
           /\ core.tick < twin.saved_at + 29)
          => /\ EventsOf(core', AX_EVT_FIRE_BLOCKED) =
                   [k \in 1..Len(DueFires(core.action_queue, core'.tick)) |->
                       Event(AX_EVT_FIRE_BLOCKED,
                             DueFires(core.action_queue, core'.tick)[k].actor_id,
                             DueFires(core.action_queue, core'.tick)[k].u0,
                             AX_FIRE_BLOCKED_RELOADING)]
             /\ ~Emitted(core', AX_EVT_DAMAGE_DEALT)
             /\ core'.entities = core.entities
             /\ core'.tick < twin.saved_at + 29
                   => core'.weapon.ammo_in_mag = core.weapon.ammo_in_mag]_vars
    /\ [][(/\ Call("ax_step_ticks")
           /\ twin.saved_at > 0
           /\ core.tick = twin.saved_at + 29
           /\ Due(core.action_queue, core'.tick) # <<>>
           /\ Due(core.action_queue, core'.tick)[1].type = AX_ACT_FIRE_ONCE)
          => /\ core'.weapon.ammo_in_mag = core.weapon.ammo_in_mag - 1
             /\ ~Emitted(core', AX_EVT_FIRE_BLOCKED)]_vars

(* the first FIRE_ONCE after a reload has hit, thirty ticks after the
   RELOAD_STARTED *)
C29_Witness ==
    /\ twin.saved_at > 0
    /\ core.tick = twin.saved_at + 30
    /\ ret.op = "ax_step_ticks"
    /\ core.weapon.ammo_in_mag = MAGAZINE_SIZE - 1
    /\ Emitted(core, AX_EVT_DAMAGE_DEALT)

(* ------------------------------------------------------------------ *)
(* A host that keeps one save and loads copies of it                    *)
(* The instance starts in one of the worlds of play of tick 0 or 1. The *)
(* host submits a RELOAD and a FIRE_ONCE for the next tick, has         *)
(* ax_save_bytes write the world once, and hands                        *)
(* ax_load_save_bytes the blob as written, the blob with the value of   *)
(* one byte changed, and the blob with the id of the first target       *)
(* record replaced by the player's and the checksum put right.          *)
(* ------------------------------------------------------------------ *)
TamperDeltas == {1, 255}

(* buf with the value of the byte at off changed by d *)
Flip(buf, off, d) == SetBytes(buf, off, <<(buf[off + 1] + d) % 256>>)

(* the copy of buf that the host hands over *)
Tampered(buf, tag, off, d) ==
    IF tag = "flipped" THEN Flip(buf, off, d)
    ELSE IF tag = "player_id" THEN FixChecksum(SetBytes(buf, TARGETS_AT, LE32(PLAYER_ID)))
    ELSE buf

InitTamper ==
    /\ InitRules
    /\ core.tick <= 1

TamperSubmit ==
    /\ Idle
    /\ core.action_queue = <<>>
    /\ \E batch \in {Batch("actions", FALSE, 1, TRUE, FALSE,
                            <<Reload(core.tick + 1), Fire(core.tick + 1)>>)} :
          \E r \in {ax_submit_actions(core, g_last_error, batch)} :
             Finish(r, Returned("ax_submit_actions", batch.tag, Len(batch.actions), r))

KeepSave ==
    /\ Idle
    /\ twin.blob = <<>>
    /\ \E args \in {x \in OutArgs(SaveTotal(core)) : x.tag = "exact"} :
          \E r \in {ax_save_bytes(core, g_last_error, args)} :
             /\ core' = r.core
             /\ g_last_error' = r.err
             /\ ret' = [ReturnedOut("ax_save_bytes", args.tag, r)
                           EXCEPT !.from = core.lifecycle, !.out = <<>>]
             /\ twin' = [twin EXCEPT !.blob = r.out]

TamperLoad ==
    /\ Idle
    /\ twin.blob # <<>>
    /\ \E tag \in {"saved", "player_id", "flipped"},
          off \in 0..(Len(twin.blob) - 1), d \in TamperDeltas :
          /\ tag = "flipped" \/ (off = 0 /\ d = 1)
          /\ \E r \in {ax_load_save_bytes(core, g_last_error,
                                          Blob("saved", Tampered(twin.blob, tag, off, d)), 0)} :
                Finish(r, [Returned("ax_load_save_bytes", tag, off, r) EXCEPT !.oob = r.oob])

NextTamper ==
    \/ Resume
    \/ TamperSubmit
    \/ KeepSave
    \/ TamperLoad

SpecTamper == InitTamper /\ [][NextTamper]_vars

(* the events of c that an action emitted, not a timer *)
ActionEvents(c) == SelectSeq(c.events, LAMBDA e : e.type # AX_EVT_RELOAD_DONE)

(* C31: a successful load_save_bytes empties the action queue and the
   event log: actions queued before the load, for any tick, are not applied by
   the steps that follow it, and a snapshot taken right after the load reports
   zero events. *)
C31_LoadEmptiesQueueAndLog ==
    [][(Call("ax_load_save_bytes") /\ ret'.res = AX_OK)
       => /\ core'.action_queue = <<>>
          /\ core'.events = <<>>
          /\ SnapshotRead(SnapshotBlob(core')).events = <<>>
          /\ \A n \in 1..MaxStep :
                /\ ActionEvents(StepLoop(core', n)) = <<>>
                /\ StepLoop(core', n).entities = core'.entities
                /\ StepLoop(core', n).weapon.ammo_in_mag + StepLoop(core', n).weapon.ammo_reserve
                      = core'.weapon.ammo_in_mag + core'.weapon.ammo_reserve]_vars

(* the saved blob has been loaded into an instance that held a queued
   FIRE_ONCE and the events of its last tick *)
C31_Witness ==
    /\ ret.op = "ax_load_save_bytes"
    /\ ret.tag = "saved"
    /\ ret.res = AX_OK
    /\ core.action_queue = <<>>
    /\ core.events = <<>>
    /\ twin.core.events # <<>>
    /\ twin.core.tick = core.tick

(* the checks of a save blob in the order the claim gives them, each with
   the message the code sets when it fails *)
CheckOrder ==
    <<"ax_load_save_bytes: buffer too small for header",
      "ax_load_save_bytes: bad magic",
      "ax_load_save_bytes: unsupported save version",
      "ax_load_save_bytes: total_size_bytes mismatch",
      "ax_load_save_bytes: checksum mismatch",
      "ax_load_save_bytes: world chunk extends past end of buffer",
      "ax_load_save_bytes: world chunk too small">>

(* the checks of CheckOrder that buf fails, each looked at on its own *)
FailedChecks(buf) ==
    LET hdr == HeaderOf(buf)
        size == U32Of(Len(buf))
    IN {k \in 1..Len(CheckOrder) :
           CASE k = 1 -> Len(buf) < SIZEOF_SAVE_HEADER
             [] k = 2 -> hdr.magic # AX_SAVE_MAGIC
             [] k = 3 -> hdr.version_major # 1
             [] k = 4 -> hdr.total_size_bytes # size
             [] k = 5 -> hdr.checksum32 # U32Of(compute_save_checksum(buf, Len(buf)))
             [] k = 6 -> U32Gt(U32Add(hdr.world_chunk_offset, hdr.world_chunk_size_bytes), size)
             [] k = 7 -> U32Lt(hdr.world_chunk_size_bytes, U32Of(SIZEOF_SAVE_WORLD))}

FailedTable ==
    [tag \in {x.tag : x \in LoadInputs} |->
        FailedChecks((CHOOSE x \in LoadInputs : x.tag = tag).buf)]

(* C32: load_save_bytes applies its checks in a fixed order and the first
   failing check decides the result: header length, magic (InvalidArg), major
   version (Unsupported), total size (InvalidArg), checksum (InvalidArg), world
   chunk bounds and size, then target array bounds and target ids
   (InvalidArg). A blob with a bad magic and a bad major version returns
   InvalidArg; one with a good magic, a bad major version and a bad checksum
   returns Unsupported. *)
C32_FirstFailingCheckDecides ==
    [][(/\ Call("ax_load_save_bytes")
        /\ Loaded(core)
        /\ ret'.tag \notin {"null", "empty"})
       => /\ FailedTable[ret'.tag] # {}
             => /\ g_last_error' = CheckOrder[SetMin(FailedTable[ret'.tag])]
                /\ ret'.res = IF SetMin(FailedTable[ret'.tag]) = 3
                              THEN AX_ERR_UNSUPPORTED ELSE AX_ERR_INVALID_ARG
          /\ (FailedTable[ret'.tag] = {} /\ Failed)
             => /\ ret'.res = AX_ERR_INVALID_ARG
                /\ g_last_error' \in
                      {"ax_load_save_bytes: target array extends past end of buffer",
                       "ax_load_save_bytes: saved target entity_id not found in world"}
          /\ ret'.tag = "bad_magic_major" => ret'.res = AX_ERR_INVALID_ARG
          /\ ret'.tag = "bad_major" => ret'.res = AX_ERR_UNSUPPORTED]_vars

(* a blob that fails the version check and the checksum check has been
   refused as unsupported, and one that fails the magic check as well is at
   hand *)
C32_Witness ==
    /\ ret.op = "ax_load_save_bytes"
    /\ ret.tag = "bad_major"
    /\ ret.from >= AX_LIFECYCLE_CONTENT_LOADED
    /\ ret.res = AX_ERR_UNSUPPORTED
    /\ FailedTable["bad_major"] = {3, 5}
    /\ {2, 3} \subseteq FailedTable["bad_magic_major"]

(* off + n <= len, computed without overflow, for 32-bit off and n *)
InRange(off, n, len) == off.hi = 0 /\ n.hi = 0 /\ off.lo + n.lo <= len

(* every byte range that a load of buf reads lies inside buf *)
ReadsInside(buf) ==
    LET hdr == HeaderOf(buf)
        w == OffsetOf(hdr.world_chunk_offset)
        target_count == RdU32(buf, w + 56, 0)
    IN /\ InRange(hdr.world_chunk_offset, hdr.world_chunk_size_bytes, Len(buf))
       /\ target_count.hi = 0
       /\ target_count.lo * SIZEOF_SAVE_TARGET < 65536
       /\ InRange(RdU32(buf, w + 60, 0), U32Of(target_count.lo * SIZEOF_SAVE_TARGET), Len(buf))

InsideTable ==
    [tag \in {x.tag : x \in LoadInputs} |->
        ReadsInside((CHOOSE x \in LoadInputs : x.tag = tag).buf)]

(* C33: load_save_bytes succeeds only if, computed without overflow,
   world_chunk_offset + world_chunk_size_bytes <= buffer length and
   targets_offset_bytes + target_count * sizeof(target record) <= buffer
   length; for all 32-bit header values every byte range that load reads lies
   inside the caller's buffer. *)
C33_Stated ==
    (/\ ret.op = "ax_load_save_bytes"
     /\ ret.from >= AX_LIFECYCLE_CONTENT_LOADED
     /\ ret.tag \notin {"null", "empty"})
    => /\ ~ret.oob
       /\ ret.res = AX_OK => InsideTable[ret.tag]

(* ------------------------------------------------------------------ *)
(* MOVE_INTENT and LOOK_INTENT, one action at a time                    *)
(* The worlds and the steps of a tick are those of the rules of play;   *)
(* the host submits moves and looks for the next tick, with the         *)
(* player's id as actor, with a target's id and with an id that no      *)
(* entity has, over and under the magnitude 1, alone and before a       *)
(* FIRE_ONCE.                                                           *)
(* ------------------------------------------------------------------ *)
UNKNOWN_ACTOR == 7

MoveBatches(t) ==
    {Batch("actions", FALSE, 1, TRUE, FALSE, as) :
        as \in {<<Move(t + 1), Look(t + 1)>>,
                <<Act(t + 1, PLAYER_ID, AX_ACT_MOVE_INTENT, (3 * FX) \div 10, (-4 * FX) \div 10),
                  Fire(t + 1)>>,
                <<Act(t + 1, FIRST_TARGET_ID, AX_ACT_MOVE_INTENT, 3 * FX, 4 * FX),
                  Act(t + 1, FIRST_TARGET_ID, AX_ACT_LOOK_INTENT, FX \div 2, 0)>>,
                <<Act(t + 1, UNKNOWN_ACTOR, AX_ACT_LOOK_INTENT, FX \div 2, 0),
                  Act(t + 1, UNKNOWN_ACTOR, AX_ACT_MOVE_INTENT, 3 * FX, 4 * FX)>>}}

MovesSubmit ==
    /\ Idle
    /\ core.action_queue = <<>>
    /\ \E batch \in MoveBatches(core.tick) :
          \E r \in {ax_submit_actions(core, g_last_error, batch)} :
             Finish(r, Returned("ax_submit_actions", batch.tag, Len(batch.actions), r))

NextMoves ==
    \/ Resume
    \/ MovesSubmit
    \/ StepEnter
    \/ ScanOne
    \/ PassEnd

SpecMoves == InitRules /\ [][NextMoves]_vars

(* the PLAYER entity of the instance *)
Player(c) == c.entities[FirstPlayer(c.entities)]

(* all of an instance that a move or a look must leave alone, the queue
   apart: the entities other than the player, the player's id, hp, flags and
   the rotation fields other than ry, the weapon, the events, tick, lifecycle *)
MoveFrame(c) ==
    <<[i \in 1..Len(c.entities) |->
          IF i = FirstPlayer(c.entities)
          THEN [c.entities[i] EXCEPT !.px = 0, !.py = 0, !.pz = 0, !.ry = 0]
          ELSE c.entities[i]],
      c.weapon, c.events, c.tick, c.lifecycle>>

(* what a due MOVE_INTENT does to the player: py is 0, and (px, pz) moves
   along the input vector by its length times the walk speed, at most by the
   walk speed *)
Moved(c, d, a) ==
    LET dx == Player(d).px - Player(c).px
        dz == Player(d).pz - Player(c).pz
    IN /\ Player(d).py = 0
       /\ Player(d).ry = Player(c).ry
       /\ dx * dx + dz * dz <= WALK_SPEED * WALK_SPEED
       /\ dx * a.u0 > 0
       /\ dz * a.u1 > 0
       /\ a.u0 * a.u0 + a.u1 * a.u1 <= FX * FX
             => dx = FMul(a.u0, WALK_SPEED) /\ dz = FMul(a.u1, WALK_SPEED)

(* what a due LOOK_INTENT does to the player *)
Looked(c, d, a) ==
    /\ Player(d).ry = Player(c).ry + a.u0
    /\ Player(d).px = Player(c).px
    /\ Player(d).py = Player(c).py
    /\ Player(d).pz = Player(c).pz

(* C34 as stated: a due MOVE_INTENT or LOOK_INTENT changes only the
   PLAYER entity's transform and does so for every due MOVE/LOOK action
   whatever its actor_id. *)
C34_Stated ==
    [][(Applies(AX_ACT_MOVE_INTENT) \/ Applies(AX_ACT_LOOK_INTENT))
       => /\ MoveFrame(core') = MoveFrame(core)
          /\ core'.action_queue = RemoveAt(core.action_queue, twin.pos)
          /\ Applies(AX_ACT_MOVE_INTENT) => Moved(core, core', Current)
          /\ Applies(AX_ACT_LOOK_INTENT) => Looked(core, core', Current)]_vars

(* C34: a due MOVE_INTENT or LOOK_INTENT whose actor_id is the PLAYER
   entity's id changes only that entity's transform (MOVE: px, pz, and py
   forced to 0; LOOK: ry += yaw); one with any other actor_id changes nothing.
   Neither changes a TARGET entity, the weapon, or any hp or flag, and
   neither emits an event. *)
C34_MoveLookOfThePlayer ==
    [][(Applies(AX_ACT_MOVE_INTENT) \/ Applies(AX_ACT_LOOK_INTENT))
       => /\ MoveFrame(core') = MoveFrame(core)
          /\ core'.action_queue = RemoveAt(core.action_queue, twin.pos)
          /\ IF Current.actor_id = Player(core).id
             THEN /\ Applies(AX_ACT_MOVE_INTENT) => Moved(core, core', Current)
                  /\ Applies(AX_ACT_LOOK_INTENT) => Looked(core, core', Current)
             ELSE core'.entities = core.entities]_vars

(* the player has moved and turned, and in another tick the actions of a
   target's id have been taken from the queue *)
C34_Witness ==
    /\ InScan
    /\ core.action_queue = <<>>
    /\ twin.core.action_queue # <<>>
    /\ twin.core.action_queue[1].actor_id = FIRST_TARGET_ID
    /\ Player(core).px > 0
    /\ Player(core).ry > 0
    /\ core.entities = twin.core.entities

(* the TARGET entities of c, by storage index *)
Targets(c) == {i \in 1..Len(c.entities) : HasFlag(c.entities[i].state_flags, AX_ENT_FLAG_TARGET)}

(* C35: in every state reached from a content load by submit and step
   only, a TARGET entity has hp below its starting value 50 only if every
   TARGET entity earlier in storage order is DEAD; targets are destroyed in the
   order 100, 101, 102, and every target's hp is a multiple of 10 between 0
   and 50. *)
C35_TargetOrdering ==
    /\ [i \in Targets(core) |-> core.entities[i].id] =
          [i \in Targets(core) |-> FIRST_TARGET_ID + i - SetMin(Targets(core))]
    /\ \A i \in Targets(core) :
          /\ core.entities[i].hp \in {DAMAGE * k : k \in 0..(TARGET_HP \div DAMAGE)}
          /\ core.entities[i].hp < TARGET_HP
                => \A j \in Targets(core) : j < i => Dead(core.entities[j])
          /\ Dead(core.entities[i])
                => \A j \in Targets(core) : j < i => Dead(core.entities[j])

(* the first two targets are destroyed and the third is hurt *)
C35_Witness ==
    /\ ret.op = "ax_step_ticks"
    /\ Cardinality({i \in Targets(core) : Dead(core.entities[i])}) = 2
    /\ \E i \in Targets(core) :
          ~Dead(core.entities[i]) /\ core.entities[i].hp < TARGET_HP

(* ammo in the magazine and in the reserve together *)
AmmoSum(c) == c.weapon.ammo_in_mag + c.weapon.ammo_reserve

(* the hit points the targets of c have lost *)
RECURSIVE DamageTaken(_, _)
DamageTaken(c, i) ==
    IF i = 0 THEN 0
    ELSE DamageTaken(c, i - 1)
         + (IF i \in Targets(c) THEN TARGET_HP - c.entities[i].hp ELSE 0)

(* the FIRE_ONCE actions that the step from c to d did not block *)
Unblocked(c, d) ==
    Len(DueFires(c.action_queue, d.tick)) - Len(EventsOf(d, AX_EVT_FIRE_BLOCKED))

(* C36: in every state reached from a content load by submit and step
   only, ammo_in_mag + ammo_reserve + (number of FIRE_ONCE actions that were
   not blocked) = 60: the sum starts at 60, a step lowers it by the number of
   its unblocked FIRE_ONCE actions (each of which, while a target lives, costs
   that target 10 hp), a reload completion leaves it unchanged and no other
   operation changes it. *)
C36_AmmoConservation ==
    /\ [](core.tick = 0 => AmmoSum(core) = START_AMMO_IN_MAG + START_AMMO_RESERVE)
    /\ [](Living(core) # {}
          => AmmoSum(core) + DamageTaken(core, Len(core.entities)) \div DAMAGE
                = START_AMMO_IN_MAG + START_AMMO_RESERVE)
    /\ [][AmmoSum(core') = IF Call("ax_step_ticks")
                           THEN AmmoSum(core) - Unblocked(core, core')
                           ELSE AmmoSum(core)]_vars
    /\ [][AmmoSum(core') < AmmoSum(core) => Emitted(core', AX_EVT_DAMAGE_DEALT)]_vars

(* a reload has completed after shots were fired: the magazine is full
   and the sum is what the shots left *)
C36_Witness ==
    /\ ret.op = "ax_step_ticks"
    /\ Emitted(core, AX_EVT_RELOAD_DONE)
    /\ core.weapon.ammo_in_mag = MAGAZINE_SIZE
    /\ AmmoSum(core) < START_AMMO_IN_MAG + START_AMMO_RESERVE

(* the entity of c with the id is a TARGET that is not DEAD *)
LivesIn(c, id) ==
    \E i \in Living(c) : c.entities[i].id = id

(* C37: over any run of submit and step from one content load, each
   target id appears in at most one TARGET_DESTROY event (one is emitted only
   for a target that was not DEAD and is DEAD from then on), every
   TARGET_DESTROY is immediately preceded in the same tick's event list by a
   DAMAGE_DEALT with the same actor and target id, and no DAMAGE_DEALT names a
   target that was already DEAD. *)
C37_DestroyOnceAfterDamage ==
    /\ [][\A i \in Targets(core) : Dead(core.entities[i]) => Dead(core'.entities[i])]_vars
    /\ [][Call("ax_step_ticks")
          => \A k \in 1..Len(core'.events) :
                /\ core'.events[k].type = AX_EVT_TARGET_DESTROY
                      => /\ k > 1
                         /\ core'.events[k - 1] =
                               Event(AX_EVT_DAMAGE_DEALT, core'.events[k].a,
                                     core'.events[k].b, DAMAGE)
                         /\ LivesIn(core, core'.events[k].b)
                         /\ ~LivesIn(core', core'.events[k].b)
                /\ core'.events[k].type \in {AX_EVT_TARGET_DESTROY, AX_EVT_DAMAGE_DEALT}
                      => /\ LivesIn(core, core'.events[k].b)
                         /\ \A j \in 1..(k - 1) :
                               ~(/\ core'.events[j].type = AX_EVT_TARGET_DESTROY
                                 /\ core'.events[j].b = core'.events[k].b)]_vars

(* the second target has just been destroyed, the first was destroyed
   ticks before *)
C37_Witness ==
    /\ ret.op = "ax_step_ticks"
    /\ core.events = <<Event(AX_EVT_DAMAGE_DEALT, PLAYER_ID, FIRST_TARGET_ID + 1, DAMAGE),
                       Event(AX_EVT_TARGET_DESTROY, PLAYER_ID, FIRST_TARGET_ID + 1, 0)>>
    /\ \E i \in Targets(core) :
          core.entities[i].id = FIRST_TARGET_ID /\ Dead(core.entities[i])

(* C38: a successful load_save_bytes changes hp and DEAD flag only of
   entities that carry the TARGET flag; the PLAYER entity's hp (-1) and
   state_flags are the same after the load as before it, for every blob that
   load accepts. *)
C38_Stated ==
    [][(Call("ax_load_save_bytes") /\ ret'.res = AX_OK)
       => \A i \in 1..Len(core.entities) :
             ~HasFlag(core.entities[i].state_flags, AX_ENT_FLAG_TARGET)
             => /\ core'.entities[i].hp = core.entities[i].hp
                /\ core'.entities[i].state_flags = core.entities[i].state_flags]_vars

(* actions for ticks after the next one, which a submit at tick t may have
   queued behind the others *)
LaterActions(t) == {<<>>, <<Fire(t + 2)>>, <<Reload(t + 2), Fire(t + 3)>>}

(* step_ticks(a) and then, with no call in between, step_ticks(b) *)
StepTwice(c, err, a, b) ==
    ax_step_ticks(ax_step_ticks(c, err, a).core, ax_step_ticks(c, err, a).err, b)

(* C39: with no calls in between, step_ticks(a) followed by step_ticks(b)
   with b >= 1 leaves the instance in the same state (tick, entities, weapon,
   action queue, event log, lifecycle) as a single step_ticks(a+b). *)
C39_StepAdditivity ==
    Idle =>
       \A a \in 0..MaxStep, b \in 1..MaxStep, later \in LaterActions(core.tick) :
          LET c == [core EXCEPT !.action_queue = @ \o later]
          IN StepTwice(c, g_last_error, a, b).core = ax_step_ticks(c, g_last_error, a + b).core

(* between two calls, with actions queued and a reload one tick from
   completion: the first tick emits events, and after the second the log is
   another *)
C39_Witness ==
    /\ Idle
    /\ core.action_queue # <<>>
    /\ core.weapon.reload_ticks_remaining = 1
    /\ ax_step_ticks(core, g_last_error, 1).core.events # <<>>
    /\ StepTwice(core, g_last_error, 1, 1).core.events
          # ax_step_ticks(core, g_last_error, 1).core.events

(* C40: a blob written by save_bytes is accepted by load_save_bytes on an
   identically content-loaded instance, and the same blob with the value of any
   single byte changed (at any position, including the checksum field) is
   rejected by load_save_bytes with an error and leaves the instance state
   unchanged. *)
C40_IntegrityCheck ==
    [][(Call("ax_load_save_bytes") /\ Loaded(core))
       => /\ ret'.tag = "saved" => ret'.res = AX_OK
          /\ ret'.tag = "flipped"
                => /\ Failed
                   /\ g_last_error' # ""
                   /\ core' = core]_vars

(* the saved blob with a byte of the checksum field changed has been
   refused, with actions in the queue that are still there *)
C40_Witness ==
    /\ ret.op = "ax_load_save_bytes"
    /\ ret.tag = "flipped"
    /\ ret.n \in CKSUM_OFFSET..(CKSUM_OFFSET + 3)
    /\ ret.res = AX_ERR_INVALID_ARG
    /\ g_last_error = "ax_load_save_bytes: checksum mismatch"
    /\ core.action_queue # <<>>

====
